---- MODULE Spec2Model ----
(***************************************************************************)
(* A model of the Canadian Tire liquidation scraper.                       *)
(*                                                                         *)
(*   src/scraper_ct.js              the multi-store scraper (run,          *)
(*                                  scrapeStore, scrapeStoreAllPages and   *)
(*                                  the record helpers)                    *)
(*   src/canadian_tire_scraper.mjs  lines 1-201: the older search-results  *)
(*                                  scraper (parsePrice, scrapePage,       *)
(*                                  scrapeStore, main)                     *)
(*                                  lines 715-760 and 1245-1268:           *)
(*                                  waitForRealCards and gotoWithRetries   *)
(*                                  of the paginated scraper               *)
(*   src/lib/ctProductKey.js        product number / product key helpers   *)
(*                                                                         *)
(* Text is a sequence of one-character strings.  Two characters that are   *)
(* not ASCII are written as tokens: "nbsp" is U+00A0 and "e_acute" /       *)
(* "E_acute" are the accented e.  A JavaScript null text is the one-token  *)
(* sequence Null.  Numbers that come from parseFloat are exact decimals    *)
(* [m, e] standing for m / 10^e; binary floating point rounding error is   *)
(* not modelled.                                                           *)
(***************************************************************************)
EXTENDS Integers, Sequences, FiniteSets, TLC

VARIABLES
    \* ---- harness of the helpers (one call, or one call sequence) ----
    fn,        \* the helper under call, "none" when no harness is running
    arg,       \* its argument(s)
    res,       \* its result, NoRes before the call returns
    hpc,       \* "ready" | "returned" | "idle"
    \* ---- one store run: scrapeStore and its page loop ----
    impl,              \* "scraper_ct" | "legacy" (canadian_tire_scraper.mjs:1-201) | "none"
    argMaxPages,       \* args.maxPages (scraper_ct) / args.pages (legacy); 0: not given
    pc,                \* where the store run stands
    pageNum,           \* pageNum of scrapeStoreAllPages / pageNumber of the legacy loop
    retries,           \* the navigation retries left for the current page
    items,             \* items of scrapeStoreAllPages / results of the legacy loop
    previousSignature, \* the signature of the last page that had one, {} for null
    emptyPageStreak,
    stopReason,        \* stopReason of the last page extracted, "none" for null
    storeInitialized,
    hasNext,           \* legacy loop: the Next control of the last page
    browserOpen,       \* the run's browser has been launched and not closed
    output,            \* the store's data.json: "old" | "removed" | "written", and the records written
    allDeals,          \* the accumulator of scrapeStore; in SpecBatch one per store
    dedupeKeys,        \* the seen-key set of scrapeStore; in SpecBatch one per store
    pages,             \* history: what each extracted page yielded
    navigated,         \* history: the page numbers navigation was started for
    \* ---- run(): the batches of stores ----
    stopRequested,
    runPc,             \* "batch" | "await" | "done" | "idle"
    batchStart,        \* i of the for loop of run()
    st,                \* st[s]: where store s of the shard stands
    session            \* session[s]: store s holds an open browser

hvars == <<fn, arg, res, hpc>>

dvars == <<allDeals, dedupeKeys>>

pvars == <<impl, argMaxPages, pc, pageNum, retries, items, previousSignature,
           emptyPageStreak, stopReason, storeInitialized, hasNext, browserOpen, output,
           pages, navigated>>

rvars == <<stopRequested, runPc, batchStart, st, session>>

vars == <<hvars, dvars, pvars, rvars>>

\* the parts of the state a specification does not use stay as they start
HarnessIdle == fn = "none" /\ arg = <<>> /\ res = <<>> /\ hpc = "idle"

DedupIdle == allDeals = <<>> /\ dedupeKeys = {}

StoreRunIdle ==
    /\ impl = "none" /\ argMaxPages = 0 /\ pc = "idle" /\ pageNum = 0
    /\ retries = 0 /\ items = <<>> /\ previousSignature = {}
    /\ emptyPageStreak = 0 /\ stopReason = "none"
    /\ storeInitialized = FALSE /\ hasNext = FALSE
    /\ browserOpen = FALSE /\ output = [state |-> "old", records |-> <<>>]
    /\ pages = <<>> /\ navigated = {}

RunIdle ==
    /\ stopRequested = FALSE /\ runPc = "idle" /\ batchStart = 0
    /\ st = <<>> /\ session = <<>>

----------------------------------------------------------------------------
(* Text helpers                                                            *)

Null == <<"null">>

Digit == {"0", "1", "2", "3", "4", "5", "6", "7", "8", "9"}

UpperAlpha == <<"A","B","C","D","E","F","G","H","I","J","K","L","M",
                "N","O","P","Q","R","S","T","U","V","W","X","Y","Z">>

LowerAlpha == <<"a","b","c","d","e","f","g","h","i","j","k","l","m",
                "n","o","p","q","r","s","t","u","v","w","x","y","z">>

\* \w of a JavaScript regular expression without the u flag
IsWordChar(c) ==
    \/ c \in Digit
    \/ c = "_"
    \/ \E i \in 1..26 : c = UpperAlpha[i] \/ c = LowerAlpha[i]

\* \s of a JavaScript regular expression (U+00A0 is white space)
IsSpace(c) == c \in {" ", "nbsp", "\t", "\n"}

\* String.prototype.toLowerCase, one character
LowerChar(c) ==
    IF c = "E_acute" THEN "e_acute"
    ELSE IF \E i \in 1..26 : c = UpperAlpha[i]
         THEN LowerAlpha[CHOOSE i \in 1..26 : c = UpperAlpha[i]]
         ELSE c

toLowerCase(s) == [i \in 1..Len(s) |-> LowerChar(s[i])]

\* s.normalize("NFD").replace(/[\u0300-\u036f]/g, ""): the accent is dropped
StripAccent(c) ==
    IF c = "e_acute" THEN "e" ELSE IF c = "E_acute" THEN "E" ELSE c

stripAccents(s) == [i \in 1..Len(s) |-> StripAccent(s[i])]

\* the characters of s that are in keep, in order
RECURSIVE FilterText(_, _)
FilterText(s, keep) ==
    IF s = <<>> THEN <<>>
    ELSE IF Head(s) \in keep THEN <<Head(s)>> \o FilterText(Tail(s), keep)
         ELSE FilterText(Tail(s), keep)

RECURSIVE DropSpaces(_)
DropSpaces(s) ==
    IF s = <<>> THEN <<>>
    ELSE IF IsSpace(Head(s)) THEN DropSpaces(Tail(s))
         ELSE <<Head(s)>> \o DropSpaces(Tail(s))

\* String.prototype.trim
RECURSIVE TrimLeft(_)
TrimLeft(s) ==
    IF s # <<>> /\ IsSpace(Head(s)) THEN TrimLeft(Tail(s)) ELSE s

RECURSIVE TrimRight(_)
TrimRight(s) ==
    IF s # <<>> /\ IsSpace(s[Len(s)]) THEN TrimRight(SubSeq(s, 1, Len(s) - 1)) ELSE s

trim(s) == TrimRight(TrimLeft(s))

\* the length of the longest run of digits of s that starts at position i
RECURSIVE DigitRun(_, _)
DigitRun(s, i) ==
    IF i <= Len(s) /\ s[i] \in Digit THEN 1 + DigitRun(s, i + 1) ELSE 0

\* the length of the longest run of non-digits of s that starts at position i
RECURSIVE NonDigitRun(_, _)
NonDigitRun(s, i) ==
    IF i <= Len(s) /\ s[i] \notin Digit THEN 1 + NonDigitRun(s, i + 1) ELSE 0

\* \b at the gap before position i of s (i in 1..Len(s)+1)
WordBoundary(s, i) ==
    LET before == i > 1 /\ IsWordChar(s[i - 1])
        after  == i <= Len(s) /\ IsWordChar(s[i])
    IN  before # after

\* pat occurs in s at position i
OccursAt(s, pat, i) ==
    /\ i + Len(pat) - 1 <= Len(s)
    /\ \A k \in 1..Len(pat) : s[i + k - 1] = pat[k]

\* String.prototype.includes / an unanchored literal regular expression
Contains(s, pat) == \E i \in 1..(Len(s) + 1) : OccursAt(s, pat, i)

\* the value of a run of decimal digits
RECURSIVE DigitsToInt(_)
DigitsToInt(s) ==
    IF s = <<>> THEN 0
    ELSE 10 * DigitsToInt(SubSeq(s, 1, Len(s) - 1))
         + (CHOOSE d \in 0..9 : ToString(d) = s[Len(s)])

\* String(n) of a natural number
RECURSIVE IntToDigits(_)
IntToDigits(n) ==
    IF n < 10 THEN <<ToString(n)>>
    ELSE IntToDigits(n \div 10) \o <<ToString(n % 10)>>

RECURSIVE Pow10(_)
Pow10(e) == IF e = 0 THEN 1 ELSE 10 * Pow10(e - 1)

----------------------------------------------------------------------------
(* Numbers                                                                 *)

\* a decimal m / 10^e, kept in lowest terms of ten so that equal values are
\* equal records
RECURSIVE Dec(_, _)
Dec(m, e) ==
    IF e > 0 /\ m % 10 = 0 THEN Dec(m \div 10, e - 1)
    ELSE [kind |-> "num", m |-> m, e |-> e]

NullNum == [kind |-> "null", m |-> 0, e |-> 0]

Throws == [kind |-> "throws", m |-> 0, e |-> 0]

\* JavaScript values handed to the helpers
JsNull == [t |-> "null", s |-> <<>>, n |-> 0]

JsUndefined == [t |-> "undefined", s |-> <<>>, n |-> 0]

JsStr(text) == [t |-> "string", s |-> text, n |-> 0]

JsNum(k) == [t |-> "number", s |-> <<>>, n |-> k]

\* String(v) of a string or of a natural number
JsString(v) == IF v.t = "number" THEN IntToDigits(v.n) ELSE v.s

\* parseFloat of a text made of digits, "." and ",": the longest prefix
\* digits [ "." digits ] or "." digits; NaN (here NullNum) when there is none
parseFloat(s) ==
    LET n1   == DigitRun(s, 1)
        dot  == n1 + 1 <= Len(s) /\ s[n1 + 1] = "."
        n2   == IF dot THEN DigitRun(s, n1 + 2) ELSE 0
        d1   == SubSeq(s, 1, n1)
        d2   == SubSeq(s, n1 + 2, n1 + 1 + n2)
    IN  IF n1 = 0 /\ n2 = 0 THEN NullNum
        ELSE Dec(DigitsToInt(d1 \o d2), n2)

\* String.prototype.replace(",", "."): the first comma only
RECURSIVE ReplaceFirstComma(_)
ReplaceFirstComma(s) ==
    IF s = <<>> THEN <<>>
    ELSE IF Head(s) = "," THEN <<".">> \o Tail(s)
         ELSE <<Head(s)>> \o ReplaceFirstComma(Tail(s))

\* the first position of s at or after i that holds a digit, 0 when none
RECURSIVE FirstDigitFrom(_, _)
FirstDigitFrom(s, i) ==
    IF i > Len(s) THEN 0
    ELSE IF s[i] \in Digit THEN i ELSE FirstDigitFrom(s, i + 1)

\* the first match of /(\d+[\.,]?\d*)/ in s, <<>> when there is none
FirstPriceMatch(s) ==
    LET i   == FirstDigitFrom(s, 1)
        n1  == DigitRun(s, i)
        sep == i + n1 <= Len(s) /\ s[i + n1] \in {".", ","}
        n2  == IF sep THEN DigitRun(s, i + n1 + 1) ELSE 0
    IN  IF i = 0 THEN <<>>
        ELSE SubSeq(s, i, i + n1 + (IF sep THEN 1 ELSE 0) + n2 - 1)

----------------------------------------------------------------------------
(* Price parsing                                                           *)

\* scraper_ct.js extractPrice
extractPrice(text) ==
    IF text.t \in {"null", "undefined"} THEN NullNum
    ELSE LET normalized == JsString(text)
             m          == FirstPriceMatch(DropSpaces(normalized))
         IN  IF m = <<>> THEN NullNum ELSE parseFloat(ReplaceFirstComma(m))

\* canadian_tire_scraper.mjs parsePrice = (value = "") => ...
\* value.replace is a TypeError for null and for a value that is no string
parsePrice(value) ==
    IF value.t \in {"null", "number"} THEN Throws
    ELSE LET v       == IF value.t = "undefined" THEN <<>> ELSE value.s
             numeric == ReplaceFirstComma(FilterText(v, Digit \cup {".", ","}))
         IN  parseFloat(numeric)

----------------------------------------------------------------------------
(* The harness: one helper is called once on one input                     *)

NoRes == [kind |-> "none", m |-> 0, e |-> 0]

\* every text over alphabet of at most n characters
TextsUpTo(alphabet, n) == UNION {[1..k -> alphabet] : k \in 0..n}

MaxTextLen == 3

MaxJsNumber == 2

PriceAlphabet == {"2", "4", "9", ",", ".", "$", " ", "nbsp", "n", "/"}

PriceExamples ==
    { <<"2","4",",","9","9"," ","$">>,
      <<"2","4",",","9","9","nbsp","$">>,
      <<"$","2","4",".","9","9">>,
      <<"1"," ","2","9","9",",","5","0"," ","$">>,
      <<"n","/","a">> }

PriceInputs ==
    {JsNull, JsUndefined}
    \cup {JsNum(k) : k \in 0..MaxJsNumber}
    \cup {JsStr(t) : t \in TextsUpTo(PriceAlphabet, MaxTextLen) \cup PriceExamples}

PriceInit ==
    /\ fn \in {"extractPrice", "parsePrice"}
    /\ arg \in PriceInputs
    /\ res = NoRes
    /\ hpc = "ready"
    /\ DedupIdle /\ StoreRunIdle /\ RunIdle

CallExtractPrice ==
    /\ hpc = "ready" /\ fn = "extractPrice"
    /\ res' = extractPrice(arg)
    /\ hpc' = "returned"
    /\ UNCHANGED <<fn, arg, dvars, pvars, rvars>>

CallParsePrice ==
    /\ hpc = "ready" /\ fn = "parsePrice"
    /\ res' = parsePrice(arg)
    /\ hpc' = "returned"
    /\ UNCHANGED <<fn, arg, dvars, pvars, rvars>>

PriceNext == CallExtractPrice \/ CallParsePrice

SpecPrice == PriceInit /\ [][PriceNext]_vars

\* ---- C8 ----
\* the text of a price input ("" for undefined, String(n) for a number)
PriceText(v) == IF v.t \in {"null", "undefined"} THEN <<>> ELSE JsString(v)

HasDigit(s) == \E i \in 1..Len(s) : s[i] \in Digit

RECURSIVE DropLeadingDollars(_)
DropLeadingDollars(s) ==
    IF s # <<>> /\ Head(s) = "$" THEN DropLeadingDollars(Tail(s)) ELSE s

RECURSIVE DropTrailingDollars(_)
DropTrailingDollars(s) ==
    IF s # <<>> /\ s[Len(s)] = "$"
    THEN DropTrailingDollars(SubSeq(s, 1, Len(s) - 1)) ELSE s

\* the text once spaces and the currency symbols around the amount are removed
BareAmount(s) == DropTrailingDollars(DropLeadingDollars(DropSpaces(s)))

\* digits, or digits, one "," or ".", digits
IsPlainAmount(s) ==
    LET n1 == DigitRun(s, 1)
    IN  /\ n1 >= 1
        /\ \/ n1 = Len(s)
           \/ /\ s[n1 + 1] \in {",", "."}
              /\ n1 + 1 + DigitRun(s, n1 + 2) = Len(s)

\* the value of a plain amount, the comma read as the decimal separator
PlainAmountValue(s) ==
    LET n1 == DigitRun(s, 1)
    IN  Dec(DigitsToInt(SubSeq(s, 1, n1) \o SubSeq(s, n1 + 2, Len(s))),
            IF n1 = Len(s) THEN 0 ELSE Len(s) - n1 - 1)

\* what the price parsers return apart from not throwing: null without a
\* digit, and the amount's value for an amount with currency symbols and
\* spaces around or inside it
PriceValueRight ==
    hpc = "returned" /\ fn \in {"extractPrice", "parsePrice"} /\ res.kind # "throws" =>
        LET t == PriceText(arg)
        IN  /\ ~HasDigit(t) => res = NullNum
            /\ IsPlainAmount(BareAmount(t)) => res = PlainAmountValue(BareAmount(t))

----------------------------------------------------------------------------
(* Product numbers and product keys (src/lib/ctProductKey.js)              *)

FORMAT_SEGMENTS == <<3, 4, 1>>

AllDigits(s, i, n) ==
    /\ i >= 1 /\ i + n - 1 <= Len(s)
    /\ \A k \in i..(i + n - 1) : s[k] \in Digit

\* the digits matched by /(\d{3})\D*(\d{4})\D*(\d)\b/ when the match starts
\* at position i, <<>> when it cannot start there
FormattedDigitsAt(s, i) ==
    LET j  == i + 3 + NonDigitRun(s, i + 3)
        k  == j + 4 + NonDigitRun(s, j + 4)
    IN  IF /\ AllDigits(s, i, 3)
           /\ AllDigits(s, j, 4)
           /\ AllDigits(s, k, 1)
           /\ WordBoundary(s, k + 1)
        THEN SubSeq(s, i, i + 2) \o SubSeq(s, j, j + 3) \o SubSeq(s, k, k)
        ELSE <<>>

\* the digits matched by /\b(\d{8})\b/ when the match starts at position i
RawDigitsAt(s, i) ==
    IF AllDigits(s, i, 8) /\ WordBoundary(s, i) /\ WordBoundary(s, i + 8)
    THEN SubSeq(s, i, i + 7)
    ELSE <<>>

\* extractDigits without its formatted pattern: only eight digits in a row
extractDigits_RawOnly(value) ==
    IF value = Null THEN Null
    ELSE LET rm == {i \in 1..Len(value) : RawDigitsAt(value, i) # <<>>}
         IN  IF rm # {} THEN RawDigitsAt(value, CHOOSE i \in rm : \A j \in rm : i <= j)
             ELSE Null

\* extractDigits: the first (leftmost) match of the formatted pattern, else of
\* the raw eight-digit pattern, else null
extractDigits(value) ==
    IF value = Null THEN Null
    ELSE LET fm == {i \in 1..Len(value) : FormattedDigitsAt(value, i) # <<>>}
             rm == {i \in 1..Len(value) : RawDigitsAt(value, i) # <<>>}
             Min(S) == CHOOSE x \in S : \A y \in S : x <= y
         IN  IF fm # {} THEN FormattedDigitsAt(value, Min(fm))
             ELSE IF rm # {} THEN RawDigitsAt(value, Min(rm))
             ELSE Null

formatProductNumber(digits) ==
    IF digits = Null \/ digits = <<>> \/ Len(digits) # 8 THEN Null
    ELSE LET a == FORMAT_SEGMENTS[1]
             b == FORMAT_SEGMENTS[2]
             c == FORMAT_SEGMENTS[3]
         IN  SubSeq(digits, 1, a) \o <<"-">> \o SubSeq(digits, a + 1, a + b)
             \o <<"-">> \o SubSeq(digits, a + b + 1, a + b + c)

\* digits ? formatProductNumber(digits) : null
FormatDigits(digits) ==
    IF digits # Null THEN formatProductNumber(digits) ELSE Null

normalizeCtProductNumber(value) == FormatDigits(extractDigits(value))

\* normalized ? `ct:${normalized}` : null
KeyOfNumber(normalized) ==
    IF normalized # Null THEN <<"c", "t", ":">> \o normalized ELSE Null

makeCtProductKey(value) == KeyOfNumber(normalizeCtProductNumber(value))

\* the three keys of buildCtKeysFromText, from the digits and the formatted
\* number
KeysOfDigits(digits, productNumber) ==
    IF digits = Null
    THEN [productNumberRaw |-> Null, productNumber |-> Null, productKey |-> Null]
    ELSE [productNumberRaw |-> digits,
          productNumber    |-> productNumber,
          productKey       |-> KeyOfNumber(productNumber)]

KeysOfText(digits) == KeysOfDigits(digits, formatProductNumber(digits))

buildCtKeysFromText(value) == KeysOfText(extractDigits(value))

\* ---- the product key harness ----
KeyDigits == {"0", "1", "9"}

Renderings == {"plain8", "seven-one", "three-four-one", "hash-three-four-one"}

\* an eight-digit product number written in one of the renderings
Render(d, r) ==
    CASE r = "plain8"    -> d
      [] r = "seven-one" -> SubSeq(d, 1, 7) \o <<"-">> \o SubSeq(d, 8, 8)
      [] r = "three-four-one" ->
            SubSeq(d, 1, 3) \o <<"-">> \o SubSeq(d, 4, 7) \o <<"-">> \o SubSeq(d, 8, 8)
      [] r = "hash-three-four-one" ->
            <<"#">> \o SubSeq(d, 1, 3) \o <<"-">> \o SubSeq(d, 4, 7) \o <<"-">>
            \o SubSeq(d, 8, 8)

KeyInit ==
    /\ fn = "makeCtProductKey"
    /\ arg \in [d : [1..8 -> KeyDigits], r : Renderings]
    /\ res = NoRes
    /\ hpc = "ready"
    /\ DedupIdle /\ StoreRunIdle /\ RunIdle

\* the key of the rendering, its normalized product number, and that number
\* normalized once more
CallMakeCtProductKey ==
    /\ hpc = "ready" /\ fn = "makeCtProductKey"
    /\ LET text == Render(arg.d, arg.r)
           norm == normalizeCtProductNumber(text)
       IN  res' = [kind   |-> "key",
                   key    |-> makeCtProductKey(text),
                   norm   |-> norm,
                   renorm |-> normalizeCtProductNumber(norm),
                   rekey  |-> makeCtProductKey(norm)]
    /\ hpc' = "returned"
    /\ UNCHANGED <<fn, arg, dvars, pvars, rvars>>

KeyNext == CallMakeCtProductKey

SpecKey == KeyInit /\ [][KeyNext]_vars

\* ---- C6 ----
CanonicalNumber(d) ==
    SubSeq(d, 1, 3) \o <<"-">> \o SubSeq(d, 4, 7) \o <<"-">> \o SubSeq(d, 8, 8)

\* C6: every rendering of an eight-digit product number (8 plain digits,
\* 7 digits-hyphen-1 digit, NNN-NNNN-N with or without a leading "#") yields
\* the key ct:NNN-NNNN-N, and normalizing the normalized number returns it
\* unchanged.
C6_ProductKeyFormatInvariant ==
    hpc = "returned" /\ fn = "makeCtProductKey" =>
        /\ res.key = <<"c", "t", ":">> \o CanonicalNumber(arg.d)
        /\ res.norm = CanonicalNumber(arg.d)
        /\ res.renorm = res.norm
        /\ res.rekey = res.key

\* the spec's example "1234567-8"-style rendering has been keyed
C6_Witness ==
    /\ hpc = "returned" /\ fn = "makeCtProductKey"
    /\ arg.r = "seven-one"
    /\ arg.d = <<"1", "0", "9", "1", "0", "9", "1", "9">>
    /\ res.key = <<"c","t",":","1","0","9","-","1","0","9","1","-","9">>

----------------------------------------------------------------------------
(* Availability (scraper_ct.js normalizeAvailabilityInfo)                  *)

\* a null stock quantity; quantities read from text are never negative
NullQty == 0 - 1

\* the enum values as they appear in a text
EnumText(a) ==
    CASE a = "in_stock"     -> <<"i","n","_","s","t","o","c","k">>
      [] a = "out_of_stock" -> <<"o","u","t","_","o","f","_","s","t","o","c","k">>
      [] a = "unknown"      -> <<"u","n","k","n","o","w","n">>

AvailabilityEnum == {"in_stock", "out_of_stock", "unknown"}

\* /(rupture|out of stock|epuise|sold out|indisponible|not available)/
OutOfStockWords ==
    { <<"r","u","p","t","u","r","e">>,
      <<"o","u","t"," ","o","f"," ","s","t","o","c","k">>,
      <<"e","p","u","i","s","e">>,
      <<"s","o","l","d"," ","o","u","t">>,
      <<"i","n","d","i","s","p","o","n","i","b","l","e">>,
      <<"n","o","t"," ","a","v","a","i","l","a","b","l","e">> }

\* /(en stock|available|disponible|quantite|reste)/
InStockWords ==
    { <<"e","n"," ","s","t","o","c","k">>,
      <<"a","v","a","i","l","a","b","l","e">>,
      <<"d","i","s","p","o","n","i","b","l","e">>,
      <<"q","u","a","n","t","i","t","e">>,
      <<"r","e","s","t","e">> }

\* text.split("#")[0]
RECURSIVE BeforeHash(_)
BeforeHash(s) ==
    IF s = <<>> \/ Head(s) = "#" THEN <<>>
    ELSE <<Head(s)>> \o BeforeHash(Tail(s))

\* Array.from(s.matchAll(/(\d+)/g)).map(Number): the values of the maximal
\* digit runs of s from position i on, left to right
RECURSIVE NumbersFrom(_, _)
NumbersFrom(s, i) ==
    IF i > Len(s) THEN <<>>
    ELSE IF s[i] \in Digit
         THEN LET n == DigitRun(s, i)
              IN  <<DigitsToInt(SubSeq(s, i, i + n - 1))>> \o NumbersFrom(s, i + n)
         ELSE NumbersFrom(s, i + 1)

\* the quantity filter without its ceiling
LessThan10000_NoLimit(num) == TRUE

LessThan10000(num) == num < 10000

\* the two vocabulary tests with the in-stock words tested first
VocabularyState_InStockFirst(normalizedText, availability) ==
    IF \E w \in InStockWords : Contains(normalizedText, w) THEN "in_stock"
    ELSE IF \E w \in OutOfStockWords : Contains(normalizedText, w) THEN "out_of_stock"
    ELSE availability

\* the two vocabulary tests: the out-of-stock words first, then the in-stock
\* words, else the availability stays as it is
VocabularyState(normalizedText, availability) ==
    IF \E w \in OutOfStockWords : Contains(normalizedText, w) THEN "out_of_stock"
    ELSE IF \E w \in InStockWords : Contains(normalizedText, w) THEN "in_stock"
    ELSE availability

normalizeAvailabilityInfo(rawAvailability, stockQtyInput) ==
    LET availabilityText == IF rawAvailability = Null THEN Null
                            ELSE trim(rawAvailability)
        truthy == availabilityText # Null /\ availabilityText # <<>>
        isEnumAvailability ==
            truthy /\ \E a \in AvailabilityEnum : availabilityText = EnumText(a)
        availability0 ==
            IF isEnumAvailability
            THEN CHOOSE a \in AvailabilityEnum : availabilityText = EnumText(a)
            ELSE "unknown"
        normalizedText ==
            IF truthy THEN toLowerCase(stripAccents(availabilityText)) ELSE <<>>
        prefixNumbers ==
            IF stockQtyInput = NullQty /\ truthy
            THEN SelectSeq(NumbersFrom(BeforeHash(availabilityText), 1), LessThan10000)
            ELSE <<>>
        stockQty ==
            IF stockQtyInput # NullQty THEN stockQtyInput
            ELSE IF Len(prefixNumbers) > 0 THEN prefixNumbers[1]
            ELSE NullQty
        availability ==
            IF stockQty # NullQty
            THEN (IF stockQty > 0 THEN "in_stock" ELSE "out_of_stock")
            ELSE IF ~isEnumAvailability /\ normalizedText # <<>>
            THEN VocabularyState(normalizedText, availability0)
            ELSE availability0
    IN  [kind             |-> "avail",
         availability     |-> availability,
         stockQty         |-> stockQty,
         availabilityText |-> IF truthy THEN availabilityText ELSE Null]

\* ---- the availability harness ----
MaxParts == 2

AvailabilityParts ==
    { <<"P","l","u","s"," ","q","u","e"," ">>,
      <<" ","e","n"," ","s","t","o","c","k">>,
      <<"R","u","p","t","u","r","e"," ","d","e"," ","s","t","o","c","k">>,
      <<"E_acute","p","u","i","s","e_acute">>,
      <<"N","o","t"," ","a","v","a","i","l","a","b","l","e">>,
      <<"Q","u","a","n","t","i","t","e_acute",":"," ">>,
      <<"i","n","_","s","t","o","c","k">>,
      <<"o","u","t","_","o","f","_","s","t","o","c","k">>,
      <<"u","n","k","n","o","w","n">>,
      <<"x","y","z">>,
      <<" ">>,
      <<"#">>,
      <<"0">>,
      <<"3">>,
      <<"9","9","9","9">>,
      <<"1","0","0","0","0">> }

RECURSIVE Concat(_)
Concat(parts) ==
    IF parts = <<>> THEN <<>> ELSE Head(parts) \o Concat(Tail(parts))

AvailabilityTexts ==
    {Null} \cup {Concat(ps) : ps \in UNION {[1..k -> AvailabilityParts] : k \in 0..MaxParts}}
           \cup { <<"P","l","u","s"," ","q","u","e"," ","3"," ","e","n"," ","s","t","o","c","k">>,
                  <<"I","n","d","i","s","p","o","n","i","b","l","e">> }

AvailInit ==
    /\ fn = "normalizeAvailabilityInfo"
    /\ arg \in [text : AvailabilityTexts, stockQtyInput : {NullQty}]
    /\ res = NoRes
    /\ hpc = "ready"
    /\ DedupIdle /\ StoreRunIdle /\ RunIdle

CallNormalizeAvailabilityInfo ==
    /\ hpc = "ready" /\ fn = "normalizeAvailabilityInfo"
    /\ res' = normalizeAvailabilityInfo(arg.text, arg.stockQtyInput)
    /\ hpc' = "returned"
    /\ UNCHANGED <<fn, arg, dvars, pvars, rvars>>

AvailNext == CallNormalizeAvailabilityInfo

SpecAvail == AvailInit /\ [][AvailNext]_vars

\* ---- C7 ----
\* the explicit leading quantity of a text: the value of the first run of
\* digits that stands before any "#" and is below 10,000; NullQty when none
LeadingQuantity(t) ==
    LET hash   == {i \in 1..Len(t) : t[i] = "#"}
        starts == {i \in 1..Len(t) :
                      /\ t[i] \in Digit
                      /\ (i = 1 \/ t[i - 1] \notin Digit)
                      /\ \A h \in hash : i < h
                      /\ DigitsToInt(SubSeq(t, i, i + DigitRun(t, i) - 1)) < 10000}
        first  == CHOOSE i \in starts : \A j \in starts : i <= j
    IN  IF starts = {} THEN NullQty
        ELSE DigitsToInt(SubSeq(t, first, first + DigitRun(t, first) - 1))

MatchesOutOfStock(t) ==
    \E w \in OutOfStockWords : Contains(toLowerCase(stripAccents(t)), w)

MatchesInStock(t) ==
    \E w \in InStockWords : Contains(toLowerCase(stripAccents(t)), w)

IsEnumLiteral(t) == \E a \in AvailabilityEnum : t = EnumText(a)

\* the states the vocabulary allows for a text without quantity
VocabularyStates(t) ==
    (IF MatchesOutOfStock(t) THEN {"out_of_stock"} ELSE {})
    \cup (IF MatchesInStock(t) THEN {"in_stock"} ELSE {})

CalledText == IF arg.text = Null THEN <<>> ELSE trim(arg.text)

\* C7 as stated: quantity first, then the vocabulary, else unknown.
C7_AvailabilityAsStated ==
    hpc = "returned" /\ fn = "normalizeAvailabilityInfo" =>
        LET t == CalledText
            q == LeadingQuantity(t)
        IN  IF q # NullQty
            THEN /\ res.stockQty = q
                 /\ res.availability = IF q > 0 THEN "in_stock" ELSE "out_of_stock"
            ELSE /\ res.stockQty = NullQty
                 /\ IF VocabularyStates(t) # {}
                    THEN res.availability \in VocabularyStates(t)
                    ELSE res.availability = "unknown"

\* C7 (amended): normalizeAvailabilityInfo classifies every availability text
\* as follows: with an explicit leading quantity below 10,000 the result is
\* in_stock when the quantity is > 0 and out_of_stock otherwise, stockQty
\* being that quantity; else a text that is exactly one of the enum values
\* in_stock, out_of_stock, unknown is returned as that value with stockQty
\* null; else a text of the out-of-stock or in-stock vocabulary gives that
\* state with stockQty null; else the result is unknown with stockQty null.
C7_AvailabilityClassification ==
    hpc = "returned" /\ fn = "normalizeAvailabilityInfo" =>
        LET t == CalledText
            q == LeadingQuantity(t)
        IN  IF q # NullQty
            THEN /\ res.stockQty = q
                 /\ res.availability = IF q > 0 THEN "in_stock" ELSE "out_of_stock"
            ELSE /\ res.stockQty = NullQty
                 /\ IF IsEnumLiteral(t)
                    THEN EnumText(res.availability) = t
                    ELSE IF VocabularyStates(t) # {}
                    THEN res.availability \in VocabularyStates(t)
                    ELSE res.availability = "unknown"

\* "Plus que 3 en stock" has been classified: in_stock with stockQty 3
C7_Witness ==
    /\ hpc = "returned" /\ fn = "normalizeAvailabilityInfo"
    /\ arg.text = <<"P","l","u","s"," ","q","u","e"," ","3"," ","e","n"," ","s","t","o","c","k">>
    /\ res.availability = "in_stock"
    /\ res.stockQty = 3

----------------------------------------------------------------------------
(* Discount (scraper_ct.js computeDiscountPercent)                         *)

\* a percentage kept as the exact fraction num / den, den > 0
NullPct == [kind |-> "null", num |-> 0, den |-> 1]

Max(a, b) == IF a >= b THEN a ELSE b

\* the mantissa of decimal d at exponent e >= d.e
ScaledTo(d, e) == d.m * Pow10(e - d.e)

IsPositive(d) == d.kind = "num" /\ d.m > 0

\* the discount with the difference counted twice
computeDiscountPercent_Doubled(regularPrice, liquidationPrice) ==
    IF regularPrice.kind = "null" \/ liquidationPrice.kind = "null" THEN NullPct
    ELSE IF regularPrice.m <= 0 \/ liquidationPrice.m <= 0 THEN NullPct
    ELSE LET e == Max(regularPrice.e, liquidationPrice.e)
             r == ScaledTo(regularPrice, e)
             l == ScaledTo(liquidationPrice, e)
         IN  [kind |-> "pct", num |-> (r - l) * 200, den |-> r]

\* ((regularPrice - liquidationPrice) / regularPrice) * 100, null when a
\* price is null or not positive
computeDiscountPercent(regularPrice, liquidationPrice) ==
    IF regularPrice.kind = "null" \/ liquidationPrice.kind = "null" THEN NullPct
    ELSE IF regularPrice.m <= 0 \/ liquidationPrice.m <= 0 THEN NullPct
    ELSE LET e == Max(regularPrice.e, liquidationPrice.e)
             r == ScaledTo(regularPrice, e)
             l == ScaledTo(liquidationPrice, e)
         IN  [kind |-> "pct", num |-> (r - l) * 100, den |-> r]

\* the threshold test with 50 itself rejected
BelowThreshold_Strict(p) == p.num <= 50 * p.den

\* discountPercent < 50 (a null percentage is handled by the caller)
BelowThreshold(p) == p.num < 50 * p.den

\* discountPercent >= 50; false for null
MeetsThreshold(p) == p.kind = "pct" /\ p.num >= 50 * p.den

\* Math.round(p * 100) / 100, in hundredths of a percent; Math.round rounds
\* half up
Round2(p) == (200 * p.num + p.den) \div (2 * p.den)

----------------------------------------------------------------------------
(* Product numbers found in card text (scraper_ct.js)                      *)

RECURSIVE SpaceRun(_, _)
SpaceRun(s, i) ==
    IF i <= Len(s) /\ IsSpace(s[i]) THEN 1 + SpaceRun(s, i + 1) ELSE 0

\* the length of the match of /#?\s*(\d{3}-\d{4}-\d)\b/ that starts at
\* position i, 0 when there is none
FormattedMatchLenAt(s, i) ==
    LET h == IF i <= Len(s) /\ s[i] = "#" THEN 1 ELSE 0
        w == SpaceRun(s, i + h)
        d == i + h + w
    IN  IF /\ d + 9 <= Len(s)
           /\ AllDigits(s, d, 3)
           /\ s[d + 3] = "-"
           /\ AllDigits(s, d + 4, 4)
           /\ s[d + 8] = "-"
           /\ AllDigits(s, d + 9, 1)
           /\ WordBoundary(s, d + 10)
        THEN h + w + 10
        ELSE 0

findProductNumberInText(value) ==
    IF value = Null \/ value = <<>> THEN Null
    ELSE LET fm == {i \in 1..Len(value) : FormattedMatchLenAt(value, i) > 0}
             rm == {i \in 1..Len(value) : RawDigitsAt(value, i) # <<>>}
             Least(S) == CHOOSE x \in S : \A y \in S : x <= y
         IN  IF fm # {}
             THEN SubSeq(value, Least(fm),
                         Least(fm) + FormattedMatchLenAt(value, Least(fm)) - 1)
             ELSE IF rm # {} THEN RawDigitsAt(value, Least(rm))
             ELSE Null

\* extractCtProductNumberRaw(...candidates): the first candidate that holds one
RECURSIVE extractCtProductNumberRaw(_)
extractCtProductNumberRaw(candidates) ==
    IF candidates = <<>> THEN Null
    ELSE LET found == findProductNumberInText(Head(candidates))
         IN  IF found # Null THEN found
             ELSE extractCtProductNumberRaw(Tail(candidates))

\* a ?? b and a || b on texts (the empty text is falsy)
Coalesce(a, b) == IF a # Null THEN a ELSE b

OrElse(a, b) == IF a # Null /\ a # <<>> THEN a ELSE b

\* x || null
OrNull(a) == OrElse(a, Null)

----------------------------------------------------------------------------
(* Cards and records (scraper_ct.js)                                       *)

\* A card is what scrapeListing returns for one listing tile:
\*   [name, price_sale_raw, price_original_raw, availability, link,
\*    product_id, sku, sku_formatted, product_number_raw,
\*    product_number, product_key, discount_percent]
\* the last three are absent (Null, NullPct) until extractProductsOnPage sets
\* them.  The image, the badges and the cleaned price texts decide nothing
\* here and are left out.  A card of the per-card fallback path
\* (extractFromCard) has no price texts.

\* extractPrice(raw ?? undefined)
PriceOf(raw) == extractPrice(IF raw = Null THEN JsUndefined ELSE JsStr(raw))

\* the product number and key fields as extractProductsOnPage derives them
\* before it hands the card on (card.title is undefined on a listing card),
\* from productNumberRaw
AnnotateWithNumber(card, availabilityKeys, productNumberRaw) ==
    [card EXCEPT
        !.product_number_raw = OrElse(productNumberRaw, @),
        !.product_number =
            OrElse(Coalesce(normalizeCtProductNumber(productNumberRaw),
                     Coalesce(availabilityKeys.productNumber,
                              normalizeCtProductNumber(card.product_number))), @),
        !.product_key =
            OrElse(OrElse(card.product_key,
                     OrElse(makeCtProductKey(Coalesce(productNumberRaw,
                                                      availabilityKeys.productNumberRaw)),
                            availabilityKeys.productKey)), @)]

AnnotateWithKeys(card, availabilityKeys) ==
    AnnotateWithNumber(card, availabilityKeys,
        Coalesce(card.product_number_raw,
          Coalesce(extractCtProductNumberRaw(<<card.link, card.name, Null>>),
                   availabilityKeys.productNumberRaw)))

AnnotateCard(card) == AnnotateWithKeys(card, buildCtKeysFromText(card.availability))

\* the end of createRecordFromCard: the threshold test and the record.
\* discount_percent is in hundredths of a percent.
RecordFromParts(card, storeContext, salePrice, regularPrice, availabilityKeys, availabilityInfo, productNumberRaw, discountPercent) ==
    IF ~(/\ regularPrice.kind # "null"
         /\ salePrice.kind # "null"
         /\ regularPrice.m > 0
         /\ salePrice.m > 0
         /\ MeetsThreshold(discountPercent))
    THEN <<>>
    ELSE << [store_id           |-> OrNull(storeContext.storeId),
             name               |-> OrNull(card.name),
             price              |-> IF salePrice.kind # "null" THEN salePrice
                                    ELSE regularPrice,
             url                |-> OrNull(card.link),
             product_id         |-> OrNull(card.product_id),
             sku                |-> OrNull(card.sku),
             sku_formatted      |-> OrNull(card.sku_formatted),
             product_number_raw |-> OrNull(productNumberRaw),
             product_number     |->
                 OrNull(Coalesce(normalizeCtProductNumber(productNumberRaw),
                          Coalesce(availabilityKeys.productNumber,
                                   normalizeCtProductNumber(card.product_number)))),
             product_key        |->
                 OrNull(OrElse(card.product_key,
                          OrElse(makeCtProductKey(
                                     Coalesce(productNumberRaw,
                                       Coalesce(availabilityKeys.productNumberRaw,
                                                card.product_number))),
                                 availabilityKeys.productKey))),
             availability       |-> availabilityInfo.availability,
             availability_text  |-> availabilityInfo.availabilityText,
             stockQty           |-> availabilityInfo.stockQty,
             discount_percent   |-> Round2(discountPercent),
             sale_price         |-> salePrice,
             regular_price      |-> regularPrice] >>

\* createRecordFromCard once the prices and the availability keys are read
RecordFromPrices(card, storeContext, salePrice, regularPrice, availabilityKeys) ==
    RecordFromParts(card, storeContext, salePrice, regularPrice, availabilityKeys,
        normalizeAvailabilityInfo(card.availability, NullQty),
        Coalesce(card.product_number_raw,
          Coalesce(extractCtProductNumberRaw(
                       <<card.product_number, card.link, card.name, Null>>),
                   availabilityKeys.productNumberRaw)),
        IF card.discount_percent.kind # "null" THEN card.discount_percent
        ELSE computeDiscountPercent(regularPrice, salePrice))

\* createRecordFromCard(card, pageIsClearance, storeContext): <<>> for null,
\* <<rec>> for a record
createRecordFromCard(card, storeContext) ==
    RecordFromPrices(card, storeContext,
                     PriceOf(card.price_sale_raw), PriceOf(card.price_original_raw),
                     buildCtKeysFromText(card.availability))

\* if (record.title || record.price != null || record.image) records.push
KeptRecord(made) ==
    IF made = <<>> THEN <<>>
    ELSE IF made[1].name # Null \/ made[1].price.kind # "null" THEN made
    ELSE <<>>

\* the threshold test of the card loop and the record that passes it
RecordsAtDiscount(card, storeContext, discountPercent) ==
    IF discountPercent.kind = "null" \/ BelowThreshold(discountPercent)
    THEN <<>>
    ELSE KeptRecord(createRecordFromCard(
                        [card EXCEPT !.discount_percent = discountPercent],
                        storeContext))

\* the body of the card loop of extractProductsOnPage for one annotated card:
\* the records it pushes (none or one)
RecordsOfCard(card, storeContext) ==
    RecordsAtDiscount(card, storeContext,
        computeDiscountPercent(PriceOf(card.price_original_raw),
                               PriceOf(card.price_sale_raw)))

\* ---- the discount harness: one card with the two price texts ----
MaxPrice == 10

PriceTextSamples ==
    {Null}
    \cup {IntToDigits(n) : n \in 0..MaxPrice}
    \cup { <<"4","0">>, <<"6","0">>, <<"1","0","0">>, <<"1","0","0",".","0","1">>, <<"5","0",".","0","1">>, <<"2","4",",","9","9"," ","$">>, <<"4","9",",","9","9">>, <<"n","/","a">> }

BlankCard ==
    [name |-> Null, price_sale_raw |-> Null, price_original_raw |-> Null,
     availability |-> Null, link |-> Null, product_id |-> Null, sku |-> Null,
     sku_formatted |-> Null, product_number_raw |-> Null,
     product_number |-> Null, product_key |-> Null, discount_percent |-> NullPct]

HarnessStore == [storeId |-> <<"4", "1", "8">>, city |-> Null]

DiscountInit ==
    /\ fn = "createRecordFromCard"
    /\ arg \in [regular : PriceTextSamples, sale : PriceTextSamples]
    /\ res = NoRes
    /\ hpc = "ready"
    /\ DedupIdle /\ StoreRunIdle /\ RunIdle

\* the card loop body of extractProductsOnPage on a card with these prices
CallCreateRecordFromCard ==
    /\ hpc = "ready" /\ fn = "createRecordFromCard"
    /\ LET card == [BlankCard EXCEPT !.name = <<"x">>,
                                     !.price_original_raw = arg.regular,
                                     !.price_sale_raw = arg.sale]
       IN  res' = [kind |-> "records",
                   out  |-> RecordsOfCard(AnnotateCard(card), HarnessStore)]
    /\ hpc' = "returned"
    /\ UNCHANGED <<fn, arg, dvars, pvars, rvars>>

DiscountNext == CallCreateRecordFromCard

SpecDiscount == DiscountInit /\ [][DiscountNext]_vars

\* ---- C4 ----
\* the two parsed prices of the call as integers at one common scale
CalledRegular == PriceOf(arg.regular)

CalledSale == PriceOf(arg.sale)

CalledScale == Max(CalledRegular.e, CalledSale.e)

RegularUnits == CalledRegular.m * Pow10(CalledScale - CalledRegular.e)

SaleUnits == CalledSale.m * Pow10(CalledScale - CalledSale.e)

BothPositive == IsPositive(CalledRegular) /\ IsPositive(CalledSale)

\* round2((regular - sale) / regular * 100) in hundredths of a percent
RoundedDiscount ==
    ((RegularUnits - SaleUnits) * 20000 + RegularUnits) \div (2 * RegularUnits)

\* C4 as stated: accepted iff regular > 0, sale > 0 and the rounded discount
\* is >= 50, and the record carries the rounded discount.
C4_AcceptedIffRoundedAtLeast50 ==
    hpc = "returned" /\ fn = "createRecordFromCard" =>
        /\ (res.out # <<>>) <=> (BothPositive /\ RoundedDiscount >= 5000)
        /\ res.out # <<>> => res.out[1].discount_percent = RoundedDiscount

\* C4 (amended): a card is accepted as a record if and only if regular > 0,
\* sale > 0 and the unrounded discount (regular - sale) / regular * 100 is
\* >= 50; the accepted record's discount_percent is that discount rounded to
\* two decimals.  (100, 40) is accepted with 60 and (100, 60) is rejected.
C4_AcceptedIffDiscountAtLeast50 ==
    hpc = "returned" /\ fn = "createRecordFromCard" =>
        /\ (res.out # <<>>) <=>
               (BothPositive /\ 2 * (RegularUnits - SaleUnits) >= RegularUnits)
        /\ res.out # <<>> => res.out[1].discount_percent = RoundedDiscount

\* (100, 40) has been accepted with a discount of 60.00
C4_Witness ==
    /\ hpc = "returned" /\ fn = "createRecordFromCard"
    /\ arg.regular = <<"1","0","0">> /\ arg.sale = <<"4","0">>
    /\ res.out # <<>>
    /\ res.out[1].discount_percent = 6000

----------------------------------------------------------------------------
(* Dedup keys and the accumulator (scraper_ct.js)                          *)

\* the text up to the first character of stops
RECURSIVE CutAt(_, _)
CutAt(s, stops) ==
    IF s = <<>> \/ Head(s) \in stops THEN <<>>
    ELSE <<Head(s)>> \o CutAt(Tail(s), stops)

\* new URL(rawUrl, BASE) throws: of the causes, the one modelled is an http
\* URL without a host ("http://", "http://?q", "http://#f")
UrlThrows(rawUrl) ==
    /\ Len(rawUrl) >= 7
    /\ SubSeq(rawUrl, 1, 7) = <<"h", "t", "t", "p", ":", "/", "/">>
    /\ Len(rawUrl) > 7 => rawUrl[8] \in {"?", "#"}

\* normalizeProductUrlForDedup: query and fragment removed, lower-cased; in
\* the catch the text is only lower-cased.  The origin is left out of the
\* links of the model, so resolving against BASE changes nothing.
normalizeProductUrlForDedup(rawUrl) ==
    IF rawUrl = Null \/ rawUrl = <<>> THEN Null
    ELSE IF UrlThrows(rawUrl) THEN toLowerCase(rawUrl)
    ELSE toLowerCase(CutAt(rawUrl, {"?", "#"}))

NoKey == [kind |-> "none", store |-> Null, id |-> Null]

\* the chain with the sku tried before the product key
KeyOfParts_SkuFirst(productKey, storeId, sku, normalizedUrl) ==
    IF storeId # Null /\ storeId # <<>> /\ sku # Null /\ sku # <<>>
    THEN [kind |-> "sku", store |-> storeId, id |-> toLowerCase(sku)]
    ELSE IF productKey # Null /\ productKey # <<>>
    THEN [kind |-> "product_key", store |-> Null, id |-> toLowerCase(productKey)]
    ELSE IF storeId # Null /\ storeId # <<>> /\ normalizedUrl # Null
            /\ normalizedUrl # <<>>
    THEN [kind |-> "url", store |-> storeId, id |-> normalizedUrl]
    ELSE NoKey

\* buildStableDedupKey; the key strings "product_key:<k>", "store:<s>|sku:<k>"
\* and "store:<s>|url:<u>" are kept as their parts
KeyOfParts(productKey, storeId, sku, normalizedUrl) ==
    IF productKey # Null /\ productKey # <<>>
    THEN [kind |-> "product_key", store |-> Null, id |-> toLowerCase(productKey)]
    ELSE IF storeId # Null /\ storeId # <<>> /\ sku # Null /\ sku # <<>>
    THEN [kind |-> "sku", store |-> storeId, id |-> toLowerCase(sku)]
    ELSE IF storeId # Null /\ storeId # <<>> /\ normalizedUrl # Null
            /\ normalizedUrl # <<>>
    THEN [kind |-> "url", store |-> storeId, id |-> normalizedUrl]
    ELSE NoKey

buildStableDedupKey(record) ==
    KeyOfParts(record.product_key, record.store_id,
               Coalesce(record.sku, record.sku_formatted),
               normalizeProductUrlForDedup(record.url))

\* dedupeDeals: the records in order, a keyed record kept the first time only
RECURSIVE DedupeFrom(_, _)
DedupeStep(record, rest, seen, key) ==
    IF key = NoKey THEN <<record>> \o DedupeFrom(rest, seen)
    ELSE IF key \in seen THEN DedupeFrom(rest, seen)
    ELSE <<record>> \o DedupeFrom(rest, seen \cup {key})

DedupeFrom(records, seen) ==
    IF records = <<>> THEN <<>>
    ELSE DedupeStep(Head(records), Tail(records), seen,
                    buildStableDedupKey(Head(records)))

dedupeDeals(records) == DedupeFrom(records, {})

\* registerRecord without adding the key to the seen-key set
RegisterWithKey_NoAdd(deals, keys, record, key) ==
    IF key # NoKey /\ key \in keys
    THEN [ret |-> FALSE, deals |-> deals, keys |-> keys]
    ELSE [ret |-> TRUE, deals |-> Append(deals, record), keys |-> keys]

\* the body of registerRecord once the key is built
RegisterWithKey(deals, keys, record, key) ==
    IF key # NoKey /\ key \in keys
    THEN [ret |-> FALSE, deals |-> deals, keys |-> keys]
    ELSE [ret   |-> TRUE,
          deals |-> Append(deals, record),
          keys  |-> IF key # NoKey THEN keys \cup {key} ELSE keys]

\* registerRecord of scrapeStore on the accumulator and seen-key set it closes
\* over: what it returns and what it leaves
registerRecord(deals, keys, record) ==
    RegisterWithKey(deals, keys, record, buildStableDedupKey(record))

----------------------------------------------------------------------------
(* The cards a listing can show                                            *)

Card(name, regular, sale) ==
    [BlankCard EXCEPT !.name = name, !.price_original_raw = regular,
                      !.price_sale_raw = sale]

\* The cards are as scrapeListing builds them: a product number is read off
\* the title, a sku off the link.  The origin every link starts with is left
\* out of the link texts.

\* accepted (60 %), keyed by its product number
CardK1 == [Card(<<"1","2","3","4","5","6","7","8">>, <<"1","0","0">>, <<"4","0">>) EXCEPT !.product_number_raw = <<"1","2","3","4","5","6","7","8">>]

\* accepted (70 %), the same product number in another rendering
CardK1b == [Card(<<"#","1","2","3","-","4","5","6","7","-","8">>, <<"1","0","0">>, <<"3","0">>) EXCEPT !.product_number_raw = <<"#","1","2","3","-","4","5","6","7","-","8">>]

\* accepted (50 %), identified by its sku and its link
CardS1 == [Card(<<"s">>, <<"1","0">>, <<"5">>) EXCEPT !.sku = <<"0","5","4","1","2","3","4">>,
                                            !.link = <<"/","p","/","s","-","0","5","4","1","2","3","4","p",".","h","t","m","l">>]

\* accepted (60 %), identified by its link only
CardU1 == [Card(<<"u">>, <<"1","0">>, <<"4">>) EXCEPT !.link = <<"/","p","/","X","?","c","=","1">>]

\* accepted (70 %), the same page under another spelling of the link
CardU1b == [Card(<<"v">>, <<"1","0">>, <<"3">>) EXCEPT !.link = <<"/","P","/","x","#","t","o","p">>]

\* accepted (50 %), without any identifier
CardN1 == Card(<<"n">>, <<"8">>, <<"4">>)

\* rejected (40 %), keyed by its product number
CardR1 == [Card(<<"0","0","0","-","0","0","0","1","-","9">>, <<"1","0","0">>, <<"6","0">>) EXCEPT !.product_number_raw = <<"0","0","0","-","0","0","0","1","-","9">>]

\* rejected (no price could be read), identified by its product id
CardZ1 == [Card(<<"z">>, Null, <<"n","/","a">>) EXCEPT !.product_id = <<"Z","9">>]

AcceptedCards == {CardK1, CardK1b, CardS1, CardU1, CardU1b, CardN1}

CardUniverse == AcceptedCards \cup {CardR1, CardZ1}

StoreIds == {<<"4","1","8">>, Null}

\* ---- the accumulator harness: any sequence of registerRecord calls ----
MaxRegisters == 3

RegisterInit ==
    /\ fn = "registerRecord"
    /\ arg \in [storeId : StoreIds, calls : {<<>>}]
    /\ res = NoRes
    /\ hpc = "ready"
    /\ allDeals = <<>>
    /\ dedupeKeys = {}
    /\ StoreRunIdle /\ RunIdle

\* one call with its result
Registered(record, r) ==
    /\ allDeals' = r.deals
    /\ dedupeKeys' = r.keys
    /\ res' = [kind |-> "register", ret |-> r.ret, record |-> record,
               dealsBefore |-> allDeals, keysBefore |-> dedupeKeys]
    /\ arg' = [arg EXCEPT !.calls = Append(@, record)]

Register(record) ==
    Registered(record, registerRecord(allDeals, dedupeKeys, record))

CallRegisterRecord ==
    /\ fn = "registerRecord"
    /\ Len(arg.calls) < MaxRegisters
    /\ \E card \in AcceptedCards :
          Register(RecordsOfCard(AnnotateCard(card),
                                 [storeId |-> arg.storeId, city |-> Null])[1])
    /\ hpc' = "returned"
    /\ UNCHANGED <<fn, pvars, rvars>>

RegisterNext == CallRegisterRecord

SpecRegister == RegisterInit /\ [][RegisterNext]_vars

\* ---- C3 ----
HasKey(record) == buildStableDedupKey(record) # NoKey

HasNoKey(record) == buildStableDedupKey(record) = NoKey

\* C3: after any sequence of register calls the accumulator holds exactly one
\* record, the first one registered, for each distinct non-null dedup key, and
\* every registered record whose key is null; a call with an already seen key
\* returns false and leaves the accumulator and the seen-key set unchanged.
C3_RegisterKeepsFirstPerKey ==
    fn = "registerRecord" =>
        LET calls == arg.calls
            keyOf(i) == buildStableDedupKey(calls[i])
            keyed == {i \in 1..Len(calls) : keyOf(i) # NoKey}
        IN  /\ \A i \in keyed :
                  LET first == CHOOSE j \in keyed :
                                   /\ keyOf(j) = keyOf(i)
                                   /\ \A k \in keyed : keyOf(k) = keyOf(i) => j <= k
                      held == {d \in 1..Len(allDeals) :
                                  buildStableDedupKey(allDeals[d]) = keyOf(i)}
                  IN  /\ Cardinality(held) = 1
                      /\ \A d \in held : allDeals[d] = calls[first]
            /\ SelectSeq(allDeals, HasNoKey) = SelectSeq(calls, HasNoKey)
            /\ dedupeKeys = {keyOf(i) : i \in keyed}
            /\ hpc = "returned" /\ HasKey(res.record)
                    /\ buildStableDedupKey(res.record) \in res.keysBefore
               => /\ res.ret = FALSE
                  /\ allDeals = res.dealsBefore
                  /\ dedupeKeys = res.keysBefore

\* a second record with an already seen key has been refused, and two
\* records without key are both held
C3_Witness ==
    /\ fn = "registerRecord" /\ hpc = "returned"
    /\ Len(arg.calls) = 3
    /\ res.ret = FALSE
    /\ buildStableDedupKey(arg.calls[1]) = buildStableDedupKey(arg.calls[3])
    /\ arg.calls[1] # arg.calls[3]
    /\ Len(allDeals) = 2

C3_WitnessNoKey ==
    /\ fn = "registerRecord" /\ hpc = "returned"
    /\ Len(arg.calls) = 2
    /\ arg.calls[1] = arg.calls[2]
    /\ HasNoKey(arg.calls[1])
    /\ Len(allDeals) = 2

----------------------------------------------------------------------------
(* One store run: scrapeStore and scrapeStoreAllPages (scraper_ct.js), and *)
(* scrapeStore of the older scraper (canadian_tire_scraper.mjs:126-165)    *)

\* buildProductIdentifiers(card); extractProductsOnPage adds them to a Set
IdentifiersOf(card, productKey) ==
    (IF productKey # Null THEN {productKey} ELSE {})
    \cup (IF card.product_id # Null /\ card.product_id # <<>>
          THEN {<<"i", "d", ":">> \o card.product_id} ELSE {})
    \cup (IF card.link # Null /\ card.link # <<>>
          THEN {<<"h", "r", "e", "f", ":">> \o toLowerCase(CutAt(card.link, {"?"}))}
          ELSE {})

buildProductIdentifiers(card) ==
    IdentifiersOf(card, OrElse(card.product_key, makeCtProductKey(card.product_number)))

\* one turn of the card loop of extractProductsOnPage on the annotated card
YieldOfCard(card, storeContext) ==
    [records     |-> RecordsOfCard(card, storeContext),
     productKeys |-> buildProductIdentifiers(card)]

JoinYield(first, rest) ==
    [records     |-> first.records \o rest.records,
     productKeys |-> first.productKeys \cup rest.productKeys]

RECURSIVE ExtractCards(_, _)
ExtractCards(cards, storeContext) ==
    IF cards = <<>> THEN [records |-> <<>>, productKeys |-> {}]
    ELSE JoinYield(YieldOfCard(AnnotateCard(Head(cards)), storeContext),
                   ExtractCards(Tail(cards), storeContext))

WithTotal(ex, total) ==
    [records |-> ex.records, totalProducts |-> total, productKeys |-> ex.productKeys]

\* extractProductsOnPage on the cards scrapeListing returned
extractProductsOnPage(cards, storeContext) ==
    WithTotal(ExtractCards(cards, storeContext), Len(cards))

\* the page signature: the identifiers lower-cased, sorted and joined by "|",
\* kept as the set of the lower-cased identifiers; {} is the empty string
Signature(productKeys) == {toLowerCase(k) : k \in productKeys}

\* the signature test with the stop never taken
SameAsPrevious_Never(previous, signature) == FALSE

\* previousSignature && signature && signature === previousSignature
SameAsPrevious(previous, signature) ==
    previous # {} /\ signature # {} /\ signature = previous

DefaultMaxPages == 50

EMPTY_STREAK_LIMIT == 2

RetriesPerPage == 3

\* Math.max(1, Number(args.maxPages) || 50)
maxPages == Max(1, IF argMaxPages # 0 THEN argMaxPages ELSE DefaultMaxPages)

\* the loop test with one page too many
WithinMaxPages_OneMore(n, limit) == n <= limit + 1

\* pageNum <= maxPages
WithinMaxPages(n, limit) == n <= limit

\* (x.discount_percent ?? 0) >= 50, discount_percent in hundredths
AtLeast50(x) == x.discount_percent >= 5000

\* for (const deal of deals) registerRecord(deal)
RECURSIVE RegisterAll(_, _, _)
RegisterRest(r, rest) == RegisterAll(r.deals, r.keys, rest)

RegisterAll(deals, keys, records) ==
    IF records = <<>> THEN [deals |-> deals, keys |-> keys]
    ELSE RegisterRest(registerRecord(deals, keys, Head(records)), Tail(records))

\* ---- the older scraper ----
\* MAX_PAGES && pageNumber > MAX_PAGES; MAX_PAGES is null or 0 without a limit
ReachedMaxPages(pageNumber) == argMaxPages # 0 /\ pageNumber > argMaxPages

\* Math.round of a percentage
LegacyRound(p) == (2 * p.num + p.den) \div (2 * p.den)

\* the item scrapePage makes of one tile, none when the discount is below 50
LegacyItemsOfCard(card, pageNumber, storeContext) ==
    LET text(raw) == JsStr(IF raw = Null THEN <<>> ELSE raw)
        price    == parsePrice(text(card.price_sale_raw))
        wasPrice == parsePrice(text(card.price_original_raw))
    IN  IF price.kind = "null" \/ wasPrice.kind = "null" THEN <<>>
        ELSE IF price.m = 0 \/ wasPrice.m = 0 THEN <<>>
        ELSE LET e == Max(price.e, wasPrice.e)
                 w == ScaledTo(wasPrice, e)
                 discount == LegacyRound([num |-> (w - ScaledTo(price, e)) * 100,
                                          den |-> w])
             IN  IF discount = 0 \/ discount < 50 THEN <<>>
                 ELSE << [storeId |-> storeContext.storeId,
                          title |-> IF card.name = Null THEN <<>> ELSE card.name,
                          price |-> price, wasPrice |-> wasPrice,
                          discount |-> discount,
                          url |-> IF card.link = Null THEN <<>> ELSE card.link,
                          page |-> pageNumber] >>

RECURSIVE LegacyItems(_, _, _)
LegacyItems(cards, pageNumber, storeContext) ==
    IF cards = <<>> THEN <<>>
    ELSE LegacyItemsOfCard(Head(cards), pageNumber, storeContext)
         \o LegacyItems(Tail(cards), pageNumber, storeContext)

\* ---- the listing ----
MaxPagesArg == 3

\* the listing is finite: past this page number a page shows no card and no
\* Next control
ListingLength == 3

PageChoices ==
    { <<>>,
      <<CardK1, CardR1, CardS1>>,
      <<CardK1b, CardR1, CardS1>>,
      <<CardU1, CardN1>>,
      <<CardU1b, CardZ1>>,
      <<CardN1>>,
      <<CardR1>>,
      <<CardR1, CardZ1>> }

\* what extractProductsOnPage returns for each page the listing can show
YieldOf == [cards \in PageChoices |-> extractProductsOnPage(cards, HarnessStore)]

PageChoicesAt(n) == IF n <= ListingLength THEN PageChoices ELSE {<<>>}

\* the search-results pages of the older scraper
LegacyPageChoices == {<<>>, <<CardK1, CardR1, CardS1>>, <<CardU1, CardN1>>}

LegacyPageChoicesAt(n) == IF n <= ListingLength THEN LegacyPageChoices ELSE {<<>>}

NextControlAt(n) == IF n < ListingLength THEN BOOLEAN ELSE {FALSE}

PageLimitArgs == {0 - 1} \cup (0..MaxPagesArg)

NoOutput == [state |-> "old", records |-> <<>>]

StoreInit ==
    /\ HarnessIdle /\ DedupIdle /\ RunIdle
    /\ impl \in {"scraper_ct", "legacy"}
    /\ argMaxPages \in PageLimitArgs
    /\ pc = "start" /\ pageNum = 0 /\ retries = 0 /\ items = <<>>
    /\ previousSignature = {} /\ emptyPageStreak = 0 /\ stopReason = "none"
    /\ storeInitialized = FALSE /\ hasNext = FALSE /\ browserOpen = FALSE
    /\ output = NoOutput /\ pages = <<>> /\ navigated = {}

\* a time limit that never says stop
hasReachedTimeLimit_Never(stop) == FALSE

\* hasReachedTimeLimit(): the value of the stop flag
hasReachedTimeLimit(stop) == stop

\* hasReachedTimeLimit() and chromium.launch: a failed launch rejects the
\* promise of the run, nothing is open
Launch ==
    /\ pc = "start"
    /\ IF impl = "scraper_ct" /\ hasReachedTimeLimit(stopRequested)
       THEN pc' = "done" /\ UNCHANGED browserOpen
       ELSE \/ pc' = "context" /\ browserOpen' = TRUE
            \/ pc' = "rejected" /\ UNCHANGED browserOpen
    /\ UNCHANGED <<impl, argMaxPages, stopReason, pageNum, retries, items, previousSignature,
                   emptyPageStreak, storeInitialized, hasNext, output, pages,
                   navigated, hvars, dvars, rvars>>

\* browser.newContext and context.newPage, before the try: a failure rejects
\* the promise of the run and nothing closes the browser
NewContext ==
    /\ pc = "context"
    /\ \/ /\ impl = "scraper_ct"
          /\ pc' = "setup"
          /\ UNCHANGED <<pageNum, hasNext>>
       \/ /\ impl = "legacy"
          /\ pc' = "legacy_loop" /\ pageNum' = 1 /\ hasNext' = TRUE
       \/ /\ pc' = "rejected"
          /\ UNCHANGED <<pageNum, hasNext>>
    /\ UNCHANGED <<impl, argMaxPages, stopReason, retries, items, previousSignature,
                   emptyPageStreak, storeInitialized, browserOpen, output, pages,
                   navigated, hvars, dvars, rvars>>

\* page.route, ensureDir, then the entry of scrapeStoreAllPages
Setup ==
    /\ pc = "setup"
    /\ \/ pc' = "loop" /\ pageNum' = 1
       \/ pc' = "close" /\ UNCHANGED pageNum
    /\ UNCHANGED <<impl, argMaxPages, stopReason, retries, items, previousSignature,
                   emptyPageStreak, storeInitialized, hasNext, browserOpen,
                   output, pages, navigated, hvars, dvars, rvars>>

\* the head of the page loop: pageNum <= maxPages and the time limit
PageLoop ==
    /\ pc = "loop"
    /\ IF WithinMaxPages(pageNum, maxPages) /\ ~hasReachedTimeLimit(stopRequested)
       THEN pc' = "goto" /\ retries' = RetriesPerPage
       ELSE pc' = "aggregate" /\ UNCHANGED retries
    /\ UNCHANGED <<impl, argMaxPages, stopReason, pageNum, items, previousSignature,
                   emptyPageStreak, storeInitialized, hasNext, browserOpen,
                   output, pages, navigated, hvars, dvars, rvars>>

\* one page.goto of the retry loop; on success the store block, which only
\* reloads the same page and swallows its errors
Goto ==
    /\ pc = "goto"
    /\ navigated' = navigated \cup {pageNum}
    /\ \/ /\ pc' = "stable"
          /\ storeInitialized' = TRUE
          /\ UNCHANGED retries
       \/ /\ retries' = retries - 1
          /\ pc' = IF retries - 1 = 0 THEN "close" ELSE "goto"
          /\ UNCHANGED storeInitialized
    /\ UNCHANGED <<impl, argMaxPages, stopReason, pageNum, items, previousSignature,
                   emptyPageStreak, hasNext, browserOpen, output, pages,
                   hvars, dvars, rvars>>

\* waitProductsStable: false ends the loop
WaitProductsStable ==
    /\ pc = "stable"
    /\ \/ pc' = "extract"
       \/ pc' = "aggregate"
    /\ UNCHANGED <<impl, argMaxPages, stopReason, pageNum, retries, items, previousSignature,
                   emptyPageStreak, storeInitialized, hasNext, browserOpen,
                   output, pages, navigated, hvars, dvars, rvars>>

\* the signature of the first page kept for good
NextPreviousSignature_First(previous, signature) ==
    IF previous # {} THEN previous ELSE signature

\* previousSignature = signature || previousSignature
NextPreviousSignature(previous, signature) ==
    IF signature # {} THEN signature ELSE previous

\* the streak with the reset left out
NextStreak_NoReset(streak, totalProducts, accepted) ==
    IF totalProducts <= 0 THEN streak
    ELSE IF accepted = 0 THEN streak + 1
    ELSE streak

\* emptyPageStreak after a page of totalProducts cards and accepted records
NextStreak(streak, totalProducts, accepted) ==
    IF totalProducts <= 0 THEN streak
    ELSE IF accepted = 0 THEN streak + 1
    ELSE 0

\* the stop reason with a page without cards going on
StopReasonOf_CardlessGoesOn(same, totalProducts, accepted, streak) ==
    IF same THEN "same_signature"
    ELSE IF totalProducts > 0 /\ accepted = 0 /\ streak >= EMPTY_STREAK_LIMIT
    THEN "empty_streak"
    ELSE "none"

\* stopReason at the end of a turn of the page loop: the signature test
\* comes last and overwrites the other reasons
StopReasonOf(same, totalProducts, accepted, streak) ==
    IF same THEN "same_signature"
    ELSE IF totalProducts <= 0 THEN "no_products"
    ELSE IF accepted = 0 /\ streak >= EMPTY_STREAK_LIMIT THEN "empty_streak"
    ELSE "none"

\* items.push(...records) and the stop decision, on what extractPage returned
AfterExtract(cards, ex) ==
    LET streak == NextStreak(emptyPageStreak, ex.totalProducts, Len(ex.records))
        signature == Signature(ex.productKeys)
        reason == StopReasonOf(SameAsPrevious(previousSignature, signature),
                               ex.totalProducts, Len(ex.records), streak)
    IN  /\ pages' = Append(pages, cards)
        /\ items' = items \o ex.records
        /\ emptyPageStreak' = streak
        /\ stopReason' = reason
        /\ previousSignature' = NextPreviousSignature(previousSignature, signature)
        /\ IF reason # "none" THEN pc' = "aggregate" /\ UNCHANGED pageNum
           ELSE pc' = "loop" /\ pageNum' = pageNum + 1

\* lazyWarmup, autoScrollLoadAllProducts, extractPage and the stop decision
ExtractPage ==
    /\ pc = "extract"
    /\ \/ /\ pc' = "close"
          /\ UNCHANGED <<pageNum, items, previousSignature, emptyPageStreak,
                         stopReason, pages>>
       \/ \E cards \in PageChoicesAt(pageNum) : AfterExtract(cards, YieldOf[cards])
    /\ UNCHANGED <<impl, argMaxPages, retries, storeInitialized, hasNext,
                   browserOpen, output, navigated, hvars, dvars, rvars>>

\* the filter, dedupeDeals and the register loop of scrapeStore
AccumulatorBecomes(r) == allDeals' = r.deals /\ dedupeKeys' = r.keys

Aggregate ==
    /\ pc = "aggregate"
    /\ AccumulatorBecomes(RegisterAll(allDeals, dedupeKeys,
                                  dedupeDeals(SelectSeq(items, AtLeast50))))
    /\ pc' = "write"
    /\ UNCHANGED <<impl, argMaxPages, stopReason, pageNum, retries, items, previousSignature,
                   emptyPageStreak, storeInitialized, hasNext, browserOpen,
                   output, pages, navigated, hvars, rvars>>

\* fsExtra.remove then fs.writeFileSync; either can throw
WriteOutput ==
    /\ pc = "write"
    /\ \/ output' = [state |-> "written", records |-> allDeals]
       \/ output' = [state |-> "removed", records |-> <<>>]
       \/ UNCHANGED output
    /\ pc' = "close"
    /\ UNCHANGED <<impl, argMaxPages, stopReason, pageNum, retries, items, previousSignature,
                   emptyPageStreak, storeInitialized, hasNext, browserOpen,
                   pages, navigated, hvars, dvars, rvars>>

\* catch (a log) and finally: browser.close(); when it throws the promise of
\* the run rejects
CloseBrowser ==
    /\ pc = "close"
    /\ \/ /\ browserOpen' = FALSE
          /\ pc' = IF impl = "legacy" THEN "legacy_write" ELSE "done"
       \/ /\ pc' = "rejected"
          /\ browserOpen' \in BOOLEAN
    /\ UNCHANGED <<impl, argMaxPages, stopReason, pageNum, retries, items, previousSignature,
                   emptyPageStreak, storeInitialized, hasNext, output, pages,
                   navigated, hvars, dvars, rvars>>

\* one turn of while (hasNext) of the older scraper: scrapePage, then the
\* MAX_PAGES test
LegacyScrapePage ==
    /\ pc = "legacy_loop"
    /\ navigated' = navigated \cup {pageNum}
    /\ \/ /\ pc' = "close"
          /\ UNCHANGED <<pageNum, items, hasNext, pages>>
       \/ \E cards \in LegacyPageChoicesAt(pageNum), next \in NextControlAt(pageNum) :
             /\ pages' = Append(pages, cards)
             /\ items' = items \o LegacyItems(cards, pageNum, HarnessStore)
             /\ hasNext' = next
             /\ pageNum' = pageNum + 1
             /\ pc' = IF ReachedMaxPages(pageNum + 1) \/ ~next
                      THEN "close" ELSE "legacy_loop"
    /\ UNCHANGED <<impl, argMaxPages, stopReason, retries, previousSignature,
                   emptyPageStreak, storeInitialized, browserOpen, output,
                   hvars, dvars, rvars>>

\* ensureDir, writeJson and writeCsv of the older scraper, after the finally
LegacyWrite ==
    /\ pc = "legacy_write"
    /\ \/ output' = [state |-> "written", records |-> items] /\ pc' = "done"
       \/ UNCHANGED output /\ pc' = "rejected"
    /\ UNCHANGED <<impl, argMaxPages, stopReason, pageNum, retries, items, previousSignature,
                   emptyPageStreak, storeInitialized, hasNext, browserOpen,
                   pages, navigated, hvars, dvars, rvars>>

Init == StoreInit

Next ==
    \/ Launch
    \/ NewContext
    \/ Setup
    \/ PageLoop
    \/ Goto
    \/ WaitProductsStable
    \/ ExtractPage
    \/ Aggregate
    \/ WriteOutput
    \/ CloseBrowser
    \/ LegacyScrapePage
    \/ LegacyWrite

Spec == Init /\ [][Next]_vars

TypeOK_Store == pc \in {"start", "context", "setup", "loop", "goto", "stable",
                        "extract", "aggregate", "write", "close", "done",
                        "rejected", "legacy_loop", "legacy_write"}

\* ---- C1 ----
\* the limit the run was configured with: maxPages of scrapeStoreAllPages,
\* MAX_PAGES of the older scraper
ConfiguredLimit == IF impl = "legacy" THEN argMaxPages ELSE maxPages

PageRecords(cards) == YieldOf[cards].records

PageSignature(cards) == Signature(YieldOf[cards].productKeys)

\* C1: whatever the listing yields, the page loop never navigates to a page
\* beyond the configured maximum, so it navigates at most that many pages
\* (for the older scraper: whenever a positive maximum is configured).
C1_NeverBeyondMaxPages ==
    (impl = "scraper_ct" \/ (impl = "legacy" /\ argMaxPages > 0))
        => /\ \A n \in navigated : 1 <= n /\ n <= ConfiguredLimit
           /\ Cardinality(navigated) <= ConfiguredLimit
           /\ Len(pages) <= ConfiguredLimit

\* a run configured with fewer pages than the listing has, whose every page
\* yielded records and a new signature: it ended after the configured maximum
C1_Witness ==
    /\ impl = "scraper_ct" /\ argMaxPages > 1 /\ argMaxPages < ListingLength
    /\ pc = "done"
    /\ navigated = 1..argMaxPages
    /\ Len(pages) = argMaxPages
    /\ pageNum = argMaxPages + 1
    /\ \A i \in 1..Len(pages) : PageRecords(pages[i]) # <<>>
    /\ \A i \in 2..Len(pages) :
          PageSignature(pages[i]) # PageSignature(pages[i - 1])

\* ---- C2 ----
\* the records in order, a record with a key kept at its first occurrence only
RECURSIVE KeptInOrder(_, _, _)
KeptInOrder(records, keep, i) ==
    IF i > Len(records) THEN <<>>
    ELSE (IF i \in keep THEN <<records[i]>> ELSE <<>>)
         \o KeptInOrder(records, keep, i + 1)

DedupUnion(records) ==
    LET keep == {i \in 1..Len(records) :
                    \/ HasNoKey(records[i])
                    \/ \A j \in 1..(i - 1) :
                          buildStableDedupKey(records[j])
                              # buildStableDedupKey(records[i])}
    IN  KeptInOrder(records, keep, 1)

StoppedAfterPage2 ==
    /\ 3 \notin navigated
    /\ Len(pages) = 2
    /\ output.state = "written"
       => output.records = DedupUnion(PageRecords(pages[1]) \o PageRecords(pages[2]))

\* C2 as stated: whenever page 2 yields the same signature as page 1, the run
\* stops after page 2 and what it writes is the deduplicated union of the
\* records of pages 1 and 2.
C2_StopsOnSameSignature ==
    (/\ impl = "scraper_ct" /\ Len(pages) >= 2
     /\ PageSignature(pages[2]) = PageSignature(pages[1]))
        => StoppedAfterPage2

\* C2: whenever page 2 yields the same signature as page 1 and that signature
\* is not empty, the run stops after page 2 (page 3 is never navigated) and
\* what it writes is the deduplicated union of the records of pages 1 and 2.
C2_StopsOnSameNonEmptySignature ==
    (/\ impl = "scraper_ct" /\ Len(pages) >= 2
     /\ PageSignature(pages[1]) # {}
     /\ PageSignature(pages[2]) = PageSignature(pages[1]))
        => StoppedAfterPage2

\* a run allowed three pages or more that stopped after two pages of the same
\* signature but different records, and wrote fewer records than it extracted
C2_Witness ==
    /\ impl = "scraper_ct" /\ maxPages >= 3 /\ pc = "done"
    /\ Len(pages) = 2 /\ navigated = {1, 2}
    /\ PageSignature(pages[1]) # {}
    /\ PageSignature(pages[2]) = PageSignature(pages[1])
    /\ PageRecords(pages[1]) # PageRecords(pages[2])
    /\ output.state = "written"
    /\ Len(output.records) = 2
    /\ Len(items) = 4

\* ---- C5 ----
\* regular price > 0, sale price > 0 and a discount of 50 % or more, from the
\* two prices themselves
PricesMeetThreshold(regular, sale) ==
    /\ regular.kind = "num" /\ sale.kind = "num"
    /\ regular.m > 0 /\ sale.m > 0
    /\ LET e == Max(regular.e, sale.e)
       IN  2 * (ScaledTo(regular, e) - ScaledTo(sale, e)) >= ScaledTo(regular, e)

CardMeetsThreshold(card) ==
    PricesMeetThreshold(PriceOf(card.price_original_raw), PriceOf(card.price_sale_raw))

RecordMeetsThreshold(r) ==
    /\ PricesMeetThreshold(r.regular_price, r.sale_price)
    /\ r.discount_percent >= 5000

CardsSeen == UNION {{pages[p][c] : c \in 1..Len(pages[p])} : p \in 1..Len(pages)}

PassingCards == {card \in CardUniverse : CardMeetsThreshold(card)}

\* the name and the two prices of a card
CardSummary(card) ==
    [name |-> card.name, regular |-> PriceOf(card.price_original_raw),
     sale |-> PriceOf(card.price_sale_raw)]

PassingSummaries == {CardSummary(card) : card \in PassingCards}

FailingNames == {card.name : card \in CardUniverse \ PassingCards}

\* C5: every record a store run extracts, accumulates or writes has regular
\* price > 0, sale price > 0 and discount_percent >= 50, and carries the name
\* and the prices of a card that meets the three conditions; no card that
\* fails one of them has a record.
C5_OnlyDealsReachOutput ==
    impl = "scraper_ct" =>
        \A records \in {items, allDeals, output.records} :
            \A i \in 1..Len(records) :
                /\ RecordMeetsThreshold(records[i])
                /\ [name    |-> records[i].name,
                    regular |-> records[i].regular_price,
                    sale    |-> records[i].sale_price] \in PassingSummaries
                /\ records[i].name \notin FailingNames

\* a run that saw a card below the threshold and a card without a readable
\* price, and wrote the accepted ones
C5_Witness ==
    /\ impl = "scraper_ct" /\ pc = "done" /\ output.state = "written"
    /\ Len(output.records) >= 2
    /\ CardR1 \in CardsSeen /\ CardZ1 \in CardsSeen

----------------------------------------------------------------------------
(* run(): the batches of stores (scraper_ct.js:1382-1422).  Each store is  *)
(* one scrapeStore call, followed here step by step without the page       *)
(* contents.                                                               *)

NumStores == 8

CONCURRENCY == 4

\* storesToProcess, numbered from 1
Stores == 1..NumStores

\* the slice without its end
Batch_ToTheEnd(i) == {s \in Stores : i < s}

\* storesToProcess.slice(i, i + CONCURRENCY)
Batch(i) == {s \in Stores : i < s /\ s <= i + CONCURRENCY}

\* the store promise handed to Promise.all without the .catch of run()
CaughtAtStoreBoundary_Uncaught(outcome) == outcome

\* scrapeStore(store).catch(...): a rejection is logged and the promise handed
\* to Promise.all fulfils
CaughtAtStoreBoundary(outcome) == "fulfilled"

\* the awaited steps inside the try of scrapeStore
NextStep(at, ok) ==
    CASE at = "setup"     -> {"navigate"}
      [] at = "navigate"  -> {"stabilize"}
      [] at = "stabilize" -> IF ok THEN {"extract"} ELSE {"write"}
      [] at = "extract"   -> {"navigate", "write"}
      [] at = "write"     -> {"close"}

\* the steps that can throw; waitProductsStable catches its own errors
Throwing == {"setup", "navigate", "extract", "write"}

RunInit ==
    /\ HarnessIdle /\ DedupIdle /\ StoreRunIdle
    /\ stopRequested = FALSE
    /\ runPc = "batch"
    /\ batchStart = 0
    /\ st = [s \in Stores |-> [at |-> "pending", failed |-> FALSE, launches |-> 0]]
    /\ session = [s \in Stores |-> FALSE]

\* the head of the for loop of run() and batch.map: every store of the batch
\* is started and runs up to its first await, chromium.launch
StartBatch ==
    /\ runPc = "batch"
    /\ IF batchStart < NumStores /\ ~stopRequested
       THEN /\ st' = [s \in Stores |->
                        IF s \in Batch(batchStart)
                        THEN [at |-> "launch", failed |-> FALSE,
                              launches |-> st[s].launches + 1]
                        ELSE st[s]]
            /\ runPc' = "await"
       ELSE /\ runPc' = "done"
            /\ UNCHANGED st
    /\ UNCHANGED <<stopRequested, batchStart, session, hvars, dvars, pvars>>

\* await Promise.all(...): it rejects with the first rejected store promise,
\* which ends run() and the process; else it waits for every store
AwaitBatch ==
    /\ runPc = "await"
    /\ IF \E s \in Batch(batchStart) : st[s].at = "rejected"
       THEN /\ runPc' = "fatal"
            /\ UNCHANGED batchStart
       ELSE /\ \A s \in Batch(batchStart) : st[s].at = "fulfilled"
            /\ batchStart' = batchStart + CONCURRENCY
            /\ runPc' = "batch"
    /\ UNCHANGED <<stopRequested, st, session, hvars, dvars, pvars>>

\* chromium.launch of store s
StoreLaunch(s) ==
    /\ runPc = "await" /\ st[s].at = "launch"
    /\ \/ /\ session' = [session EXCEPT ![s] = TRUE]
          /\ st' = [st EXCEPT ![s].at = "context"]
       \/ /\ st' = [st EXCEPT ![s].at = CaughtAtStoreBoundary("rejected"),
                                ![s].failed = TRUE]
          /\ UNCHANGED session
    /\ UNCHANGED <<stopRequested, runPc, batchStart, hvars, dvars, pvars>>

\* browser.newContext and context.newPage of store s, before the try: when one
\* throws nothing closes the browser, which is still there or has died
StoreNewContext(s) ==
    /\ runPc = "await" /\ st[s].at = "context"
    /\ \/ /\ st' = [st EXCEPT ![s].at = "setup"]
          /\ UNCHANGED session
       \/ \E alive \in BOOLEAN :
             /\ session' = [session EXCEPT ![s] = alive]
             /\ st' = [st EXCEPT ![s].at = CaughtAtStoreBoundary("rejected"),
                                ![s].failed = TRUE]
    /\ UNCHANGED <<stopRequested, runPc, batchStart, hvars, dvars, pvars>>

\* one awaited step of the try of store s; a throw is caught and logged, and
\* the finally is next
StoreTry(s) ==
    /\ runPc = "await" /\ st[s].at \in Throwing \cup {"stabilize"}
    /\ \/ \E ok \in BOOLEAN : \E next \in NextStep(st[s].at, ok) :
             st' = [st EXCEPT ![s].at = next]
       \/ /\ st[s].at \in Throwing
          /\ st' = [st EXCEPT ![s].at = "close", ![s].failed = TRUE]
    /\ UNCHANGED <<stopRequested, runPc, batchStart, session, hvars, dvars, pvars>>

\* finally: browser.close() of store s; when it throws the store promise
\* rejects and the browser is closed or not
StoreClose(s) ==
    /\ runPc = "await" /\ st[s].at = "close"
    /\ \/ /\ session' = [session EXCEPT ![s] = FALSE]
          /\ st' = [st EXCEPT ![s].at = CaughtAtStoreBoundary("fulfilled")]
       \/ \E alive \in BOOLEAN :
             /\ session' = [session EXCEPT ![s] = alive]
             /\ st' = [st EXCEPT ![s].at = CaughtAtStoreBoundary("rejected"),
                                ![s].failed = TRUE]
    /\ UNCHANGED <<stopRequested, runPc, batchStart, hvars, dvars, pvars>>

RunNext ==
    \/ StartBatch
    \/ AwaitBatch
    \/ \E s \in Stores : StoreLaunch(s)
    \/ \E s \in Stores : StoreNewContext(s)
    \/ \E s \in Stores : StoreTry(s)
    \/ \E s \in Stores : StoreClose(s)

SpecRun == RunInit /\ [][RunNext]_vars

\* ---- C9 ----
\* C9: a store run that fails, at whatever step, never ends run(): every
\* batch is launched, and when run() is done every store of every batch has
\* run to its own end.
C9_FailureStaysAtStoreBoundary ==
    /\ runPc \in {"batch", "await", "done"}
    /\ runPc = "done" => \A s \in Stores : st[s].at = "fulfilled"
    /\ \A s \in Stores : st[s].at # "rejected"

\* run() is done, a store of the first batch failed, another store of the
\* same batch and a store of the second batch ran through without failure
C9_Witness ==
    /\ runPc = "done"
    /\ \E s \in Batch(0) : st[s].failed
    /\ \E s \in Batch(0) : ~st[s].failed
    /\ \E s \in Batch(CONCURRENCY) : ~st[s].failed /\ ~session[s]

\* ---- C10 ----
OpenSessions == {s \in Stores : session[s]}

\* C10: at every moment at most CONCURRENCY (4) stores hold an open browser
\* session.
C10_AtMostFourSessions == Cardinality(OpenSessions) <= CONCURRENCY

----------------------------------------------------------------------------
(* The stores of one batch side by side, with what each call of            *)
(* scrapeStore accumulates (scraper_ct.js:1255-1371).  allDeals[s] and     *)
(* dedupeKeys[s] are the allDeals and dedupeKeys of the call for store s.  *)
(* Between two awaits a call runs alone: the filter, dedupeDeals and the   *)
(* register loop are one step.                                             *)

\* the storeId of the stores of the batch
BatchStoreIds == {<<"4", "1", "8">>, <<"2", "7", "1">>}

\* the cards behind itemsAllPages, over all the pages of a store: two
\* renderings of one product number, a sku, a link and a card without
\* identifier, some of them seen on two pages
ItemChoices ==
    { <<>>,
      <<CardK1>>,
      <<CardK1b>>,
      <<CardS1>>,
      <<CardK1, CardK1b>>,
      <<CardK1, CardS1>>,
      <<CardS1, CardK1b, CardS1>>,
      <<CardU1, CardN1>>,
      <<CardU1b, CardU1>>,
      <<CardN1, CardN1>>,
      <<CardS1, CardU1, CardK1>> }

ContextOf(s) == [storeId |-> s, city |-> Null]

\* itemsAllPages of store s when its pages showed these cards
ItemsAllPages == [s \in BatchStoreIds |-> [cards \in ItemChoices |-> ExtractCards(cards, ContextOf(s)).records]]

\* deals of store s after the filter and dedupeDeals
DedupedDeals == [s \in BatchStoreIds |-> [cards \in ItemChoices |-> dedupeDeals(SelectSeq(ItemsAllPages[s][cards], AtLeast50))]]

\* every call shares one seen-key set
SeenKeysOf_Shared(keys, s) == UNION {keys[t] : t \in DOMAIN keys}

\* const dedupeKeys = new Set() inside scrapeStore: registerRecord of the
\* call for store s reads and writes the set of that call
SeenKeysOf(keys, s) == keys[s]

BatchInit ==
    /\ HarnessIdle /\ StoreRunIdle
    /\ stopRequested = FALSE /\ runPc = "await" /\ batchStart = 0
    /\ st = [s \in BatchStoreIds |-> [at |-> "start", failed |-> FALSE, cards |-> <<>>]]
    /\ session = [s \in BatchStoreIds |-> FALSE]
    /\ allDeals = [s \in BatchStoreIds |-> <<>>]
    /\ dedupeKeys = [s \in BatchStoreIds |-> {}]

\* launch, newContext, newPage and the head of the try of store s, up to the
\* await of scrapeStoreAllPages: allDeals = [], dedupeKeys = new Set()
BatchEnterTry(s) ==
    /\ st[s].at = "start"
    /\ st' = [st EXCEPT ![s].at = "pages"]
    /\ session' = [session EXCEPT ![s] = TRUE]
    /\ allDeals' = [allDeals EXCEPT ![s] = <<>>]
    /\ dedupeKeys' = [dedupeKeys EXCEPT ![s] = {}]
    /\ UNCHANGED <<stopRequested, runPc, batchStart, hvars, pvars>>

BatchAccumulatorBecomes(s, r) ==
    /\ allDeals' = [allDeals EXCEPT ![s] = r.deals]
    /\ dedupeKeys' = [dedupeKeys EXCEPT ![s] = r.keys]

\* scrapeStoreAllPages of store s returns, then the filter, dedupeDeals and
\* the register loop, up to the await of fsExtra.remove; or it throws
BatchAggregate(s) ==
    /\ st[s].at = "pages"
    /\ \/ \E cards \in ItemChoices :
             /\ BatchAccumulatorBecomes(s,
                    RegisterAll(allDeals[s], SeenKeysOf(dedupeKeys, s),
                                DedupedDeals[s][cards]))
             /\ st' = [st EXCEPT ![s] = [at |-> "write", failed |-> FALSE, cards |-> cards]]
       \/ /\ st' = [st EXCEPT ![s] = [at |-> "close", failed |-> TRUE, cards |-> <<>>]]
          /\ UNCHANGED dvars
    /\ UNCHANGED <<stopRequested, runPc, batchStart, session, hvars, pvars>>

\* remove and writeFileSync of store s, then the finally
BatchWrite(s) ==
    /\ st[s].at \in {"write", "close"}
    /\ st' = [st EXCEPT ![s].at = IF @ = "write" THEN "close" ELSE "done"]
    /\ session' = [session EXCEPT ![s] = IF st[s].at = "close" THEN FALSE ELSE @]
    /\ UNCHANGED <<stopRequested, runPc, batchStart, hvars, dvars, pvars>>

BatchNext ==
    \/ \E s \in BatchStoreIds : BatchEnterTry(s)
    \/ \E s \in BatchStoreIds : BatchAggregate(s)
    \/ \E s \in BatchStoreIds : BatchWrite(s)

SpecBatch == BatchInit /\ [][BatchNext]_vars

\* ---- C11 ----
KeysOfDeals(deals) == {buildStableDedupKey(deals[i]) : i \in 1..Len(deals)} \ {NoKey}

AloneKeys == [s \in BatchStoreIds |-> [cards \in ItemChoices |-> KeysOfDeals(DedupedDeals[s][cards])]]

Aggregated(s) == st[s].at \in {"write", "close", "done"} /\ ~st[s].failed

\* C11: however the stores of a batch interleave, a store's accumulator and
\* seen-key set hold exactly what the store's own pages give: both are empty
\* until its own register loop has run, and afterwards no deal of the store
\* is missing because another store registered a record with the same key.
C11_StoresDoNotShareDedupState ==
    \A s \in BatchStoreIds :
        IF Aggregated(s)
        THEN /\ allDeals[s] = DedupedDeals[s][st[s].cards]
             /\ dedupeKeys[s] = AloneKeys[s][st[s].cards]
        ELSE allDeals[s] = <<>> /\ dedupeKeys[s] = {}

\* two stores have both registered a record under the same key, one while
\* the other still held its browser
C11_Witness ==
    /\ \A s \in BatchStoreIds : Aggregated(s) /\ allDeals[s] # <<>>
    /\ \E s, t \in BatchStoreIds :
          /\ s # t /\ session[t]
          /\ dedupeKeys[s] \cap dedupeKeys[t] # {}

----------------------------------------------------------------------------
(* More on the page loop of one store run (specification Spec)             *)

\* ---- C12 ----
\* the retry loop of the last page navigated used up its retries: retries is
\* set to 3 at every page and reaches 0 only through the throw of line 1133
NavigationFailed == impl = "scraper_ct" /\ navigated # {} /\ retries = 0

RECURSIVE RecordsOfPages(_)
RecordsOfPages(ps) ==
    IF ps = <<>> THEN <<>> ELSE PageRecords(Head(ps)) \o RecordsOfPages(Tail(ps))

\* C12: when the navigation to page k has failed on every retry and the run
\* has ended, the records of pages 1..k-1 have been written as the store's
\* output.
C12_NavigationFailureKeepsRecords ==
    (NavigationFailed /\ pc = "done")
        => /\ output.state = "written"
           /\ output.records = DedupUnion(RecordsOfPages(pages))

\* ---- C13 ----
\* the page showed cards and none of them was accepted
ZeroYield(cards) == cards # <<>> /\ PageRecords(cards) = <<>>

LastTwoZeroYield ==
    /\ Len(pages) >= 2
    /\ ZeroYield(pages[Len(pages) - 1]) /\ ZeroYield(pages[Len(pages)])

\* previousSignature when page k is compared: the signature of the last of
\* the pages before k that had one
RECURSIVE LastSignature(_)
LastSignature(ps) ==
    IF ps = <<>> THEN {}
    ELSE IF PageSignature(ps[Len(ps)]) # {} THEN PageSignature(ps[Len(ps)])
    ELSE LastSignature(SubSeq(ps, 1, Len(ps) - 1))

LastPageRepeatsSignature ==
    /\ pages # <<>>
    /\ SameAsPrevious(LastSignature(SubSeq(pages, 1, Len(pages) - 1)),
                      PageSignature(pages[Len(pages)]))

\* the page loop is over after the last page extracted
LoopEnded == pc \in {"aggregate", "write", "close", "done", "rejected"}

StreakResetAndBound ==
    /\ emptyPageStreak <= EMPTY_STREAK_LIMIT
    /\ (pages # <<>> /\ PageRecords(pages[Len(pages)]) # <<>>) => emptyPageStreak = 0

\* C13 as stated: the stop reason is the empty streak exactly when the last
\* two pages both showed cards and yielded no accepted record; a page with an
\* accepted record resets the streak, which never exceeds 2.
C13_EmptyStreakStopExactly ==
    impl = "scraper_ct"
        => /\ stopReason = "empty_streak" <=> LastTwoZeroYield
           /\ StreakResetAndBound

\* C13: two consecutive pages that showed cards and yielded no accepted
\* record end the page loop; the stop reason is the empty streak exactly
\* when that happened and the second page did not repeat the previous
\* signature (then the reason is the identical content); a page with an
\* accepted record resets the streak, which never exceeds 2.
C13_EmptyStreakStop ==
    impl = "scraper_ct"
        => /\ LastTwoZeroYield => LoopEnded /\ stopReason \in {"empty_streak", "same_signature"}
           /\ stopReason = "empty_streak" <=> (LastTwoZeroYield /\ ~LastPageRepeatsSignature)
           /\ StreakResetAndBound

\* a run that went past a first pair of pages without stopping, had its streak
\* reset by a page with records and then stopped on the empty streak
C13_Witness ==
    /\ impl = "scraper_ct" /\ pc = "done" /\ stopReason = "empty_streak"
    /\ emptyPageStreak = EMPTY_STREAK_LIMIT
    /\ Len(pages) = 3 /\ PageRecords(pages[1]) # <<>>
    /\ LastTwoZeroYield

\* ---- C14 ----
\* C14 as stated: the run stops for identical content on page k only when the
\* signature of page k equals the signature of page k-1.
C14_StopOnlyOnAdjacentSignature ==
    (impl = "scraper_ct" /\ stopReason = "same_signature")
        => /\ Len(pages) >= 2
           /\ PageSignature(pages[Len(pages)]) = PageSignature(pages[Len(pages) - 1])

\* C14: the run stops for identical content on page k exactly when the
\* signature of page k is not empty and equals the signature of the nearest
\* page before k that had one: page k-1, unless no card of page k-1 carried
\* an identifier.  Equality with any other earlier page does not stop it.
C14_StopOnLastSignatureOnly ==
    impl = "scraper_ct"
        => /\ stopReason = "same_signature" <=> LastPageRepeatsSignature
           /\ stopReason = "same_signature" => LoopEnded /\ Len(pages) >= 2

\* page 3 repeated page 1, page 2 had another signature, and the run went on
\* to page 4
C14_Witness ==
    /\ impl = "scraper_ct" /\ Len(pages) = 3 /\ 4 \in navigated
    /\ PageSignature(pages[1]) # {}
    /\ PageSignature(pages[3]) = PageSignature(pages[1])
    /\ PageSignature(pages[2]) \notin {{}, PageSignature(pages[1])}
    /\ stopReason = "none"

\* the stop fired on page 3, which repeated page 2 and not page 1
C14_WitnessFired ==
    /\ impl = "scraper_ct" /\ Len(pages) = 3 /\ pc = "done"
    /\ stopReason = "same_signature"
    /\ PageSignature(pages[3]) = PageSignature(pages[2])
    /\ PageSignature(pages[1]) \notin {{}, PageSignature(pages[2])}

\* ---- C15 ----
\* every page navigated was extracted: the loop did not end on a failed
\* navigation, an unstable page or a throw
EveryNavigatedPageExtracted == Len(pages) = Cardinality(navigated)

\* the four conditions of the claim after the last page extracted; the page
\* URL of scrapeStoreAllPages always has a next page number, so an advance
\* affordance always exists
FourStopConditions ==
    \/ emptyPageStreak >= EMPTY_STREAK_LIMIT
    \/ LastPageRepeatsSignature
    \/ Len(pages) >= maxPages
    \/ FALSE

\* C15: when the page loop has ended after extracting a page k >= 2, one of
\* the four conditions holds (empty-page streak at 2, signature equal to the
\* previous one, page count at the maximum, no advance affordance); a page
\* k >= 2 without cards does not by itself end the run.
C15_ContinuesUnlessFourConditions ==
    (/\ impl = "scraper_ct" /\ Len(pages) >= 2
     /\ LoopEnded /\ EveryNavigatedPageExtracted)
        => FourStopConditions

\* ---- C16 ----
\* C16: when page 1 shows no card the page loop ends at page 1 for that
\* reason, page 2 is never navigated, the record list is empty and so is the
\* output when it is written.
C16_EmptyFirstPageStops ==
    (impl = "scraper_ct" /\ pages # <<>> /\ pages[1] = <<>>)
        => /\ LoopEnded /\ stopReason = "no_products"
           /\ Len(pages) = 1 /\ navigated = {1}
           /\ items = <<>> /\ allDeals = <<>>
           /\ output.state = "written" => output.records = <<>>

\* a run allowed more than one page that ended after an empty page 1 and
\* wrote an empty output
C16_Witness ==
    /\ impl = "scraper_ct" /\ maxPages >= 2 /\ pc = "done"
    /\ pages = << <<>> >>
    /\ output = [state |-> "written", records |-> <<>>]

----------------------------------------------------------------------------
(* Navigation with retries: gotoWithRetries                                *)
(* (canadian_tire_scraper.mjs:1245-1268) and the retry loop of             *)
(* scrapeStoreAllPages (scraper_ct.js:1127-1137), one navigation of one    *)
(* page URL.  res.made counts the page.goto calls, res.log holds the       *)
(* errors of the failed ones, res.pauses the pauses that ran through.      *)

\* attempts = 3, the default of gotoWithRetries and what its caller passes
DefaultAttempts == 3

\* what page.goto can fail with
NavErrors == {"timeout", "connection", "closed"}

\* the loop test with one attempt too many
MoreAttempts_OneMore(made, attempts) == made <= attempts

\* attempt <= attempts with attempt = made + 1; retries > 0 with
\* retries = attempts - made
MoreAttempts(made, attempts) == made < attempts

GotoInit ==
    /\ fn \in {"gotoWithRetries", "scrapeStoreAllPages"}
    /\ arg = [attempts |-> IF fn = "gotoWithRetries" THEN DefaultAttempts
                           ELSE RetriesPerPage]
    /\ res = [made |-> 0, log |-> <<>>, pauses |-> 0, lastError |-> "none",
              outcome |-> "running", raised |-> "none"]
    /\ hpc = "attempt"
    /\ DedupIdle /\ StoreRunIdle /\ RunIdle

\* catch of scrapeStoreAllPages: if (--retries === 0) throw e
ThrowsAtOnce(f, made, attempts) == f = "scrapeStoreAllPages" /\ made = attempts

Failed(err, atOnce) ==
    /\ res' = [res EXCEPT !.made = @ + 1, !.log = Append(@, err),
                          !.lastError = err,
                          !.outcome = IF atOnce THEN "thrown" ELSE @,
                          !.raised = IF atOnce THEN err ELSE @]
    /\ hpc' = IF atOnce THEN "returned" ELSE "pause"

\* one page.goto: it succeeds and the navigation returns, or it fails
GotoAttempt ==
    /\ hpc = "attempt"
    /\ MoreAttempts(res.made, arg.attempts)
    /\ \/ /\ res' = [res EXCEPT !.made = @ + 1, !.outcome = "returned"]
          /\ hpc' = "returned"
       \/ \E err \in NavErrors :
             Failed(err, ThrowsAtOnce(fn, res.made + 1, arg.attempts))
    /\ UNCHANGED <<fn, arg, dvars, pvars, rvars>>

\* page.waitForTimeout in the catch: 2000 ms in gotoWithRetries, also after
\* the last attempt; 3000 ms in scrapeStoreAllPages.  The wait is not
\* guarded: when it rejects the navigation ends with its error.
GotoPause ==
    /\ hpc = "pause"
    /\ \/ /\ res' = [res EXCEPT !.pauses = @ + 1]
          /\ hpc' = "attempt"
       \/ /\ res' = [res EXCEPT !.outcome = "thrown", !.raised = "pause"]
          /\ hpc' = "returned"
    /\ UNCHANGED <<fn, arg, dvars, pvars, rvars>>

\* after the for loop of gotoWithRetries: if (lastError) throw lastError;
\* return null
GotoLoopExit ==
    /\ hpc = "attempt"
    /\ fn = "gotoWithRetries"
    /\ ~MoreAttempts(res.made, arg.attempts)
    /\ res' = [res EXCEPT
                  !.outcome = IF res.lastError # "none" THEN "thrown" ELSE "returned",
                  !.raised = res.lastError]
    /\ hpc' = "returned"
    /\ UNCHANGED <<fn, arg, dvars, pvars, rvars>>

GotoNext ==
    \/ GotoAttempt
    \/ GotoPause
    \/ GotoLoopExit

SpecGoto == GotoInit /\ [][GotoNext]_vars

\* ---- C17 ----
AttemptsAndPauses ==
    /\ res.made <= 3
    /\ res.pauses <= Len(res.log)
    /\ hpc = "attempt" => res.pauses = res.made /\ Len(res.log) = res.made
    /\ res.outcome = "returned" => res.made >= 1 /\ Len(res.log) = res.made - 1

ThreeFailures == hpc = "returned" /\ Len(res.log) = 3

\* C17 as stated: at most 3 attempts with a pause between them, the first
\* success returns, and after the 3rd failed attempt the last navigation
\* error is raised.
C17_ThreeAttemptsThenLastNavigationError ==
    /\ AttemptsAndPauses
    /\ ThreeFailures => res.outcome = "thrown" /\ res.raised = res.log[3]

\* C17: at most 3 attempts, each one after the first preceded by a completed
\* pause; the first success returns; after the 3rd failed attempt an error
\* is raised, and it is the last navigation error unless the pause itself
\* failed, which only gotoWithRetries runs after the 3rd failure; an earlier
\* end is a success or a failed pause.
C17_ThreeAttemptsThenError ==
    /\ AttemptsAndPauses
    /\ ThreeFailures
          => /\ res.outcome = "thrown"
             /\ \/ res.raised = res.log[3]
                \/ fn = "gotoWithRetries" /\ res.raised = "pause"
    /\ (res.outcome = "thrown" /\ ~ThreeFailures) => res.raised = "pause"

\* three attempts failed with different errors and the error of the third
\* was raised
C17_Witness ==
    /\ hpc = "returned" /\ res.made = 3 /\ res.pauses >= 2
    /\ Len(res.log) = 3
    /\ res.log[1] # res.log[3] /\ res.log[2] # res.log[3]
    /\ res.outcome = "thrown" /\ res.raised = res.log[3]

----------------------------------------------------------------------------
(* waitForRealCards (canadian_tire_scraper.mjs:715-760), one call.  res    *)
(* holds placeholderReloaded, the last poll and, as history, the number of *)
(* polls, of polls that saw placeholder markup and of reloads.             *)

\* minRealCards = 5, the default and what every caller passes
MinRealCards == 5

\* cardsDetected <= 2
PlaceholderMaxCards == 2

MaxPolls == 4

MaxCardsSeen == 6

\* what checkPlaceholder can return: realCards is a filter of the cards
Observations == {o \in [cardsDetected : 0..MaxCardsSeen, realCards : 0..MaxCardsSeen] : o.realCards <= o.cardsDetected}

\* cardsDetected <= 2 && realCards === 0
IsPlaceholder(o) == o.cardsDetected <= PlaceholderMaxCards /\ o.realCards = 0

\* a reload at every placeholder poll
ShouldReload_Always(placeholderReloaded) == TRUE

\* if (!placeholderReloaded)
ShouldReload(placeholderReloaded) == ~placeholderReloaded

NoObservation == [cardsDetected |-> 0 - 1, realCards |-> 0 - 1]

RealCardsInit ==
    /\ fn = "waitForRealCards"
    /\ arg = [minRealCards |-> MinRealCards]
    /\ res = [placeholderReloaded |-> FALSE, last |-> NoObservation,
              polls |-> 0, placeholderPolls |-> 0, firstPlaceholderPoll |-> 0,
              reloads |-> 0, reloadAtPoll |-> 0, outcome |-> "running"]
    /\ hpc = "poll"
    /\ DedupIdle /\ StoreRunIdle /\ RunIdle

\* the poll counted, with what it saw
Polled(o) ==
    [res EXCEPT !.last = o, !.polls = @ + 1,
                !.placeholderPolls = IF IsPlaceholder(o) THEN @ + 1 ELSE @,
                !.firstPlaceholderPoll =
                    IF IsPlaceholder(o) /\ @ = 0 THEN res.polls + 1 ELSE @]

\* the body of the while loop up to its next await, on what the poll saw
AfterPoll(o, r) ==
    IF o.realCards >= arg.minRealCards
    THEN /\ res' = [r EXCEPT !.outcome = "true"]
         /\ hpc' = "returned"
    ELSE IF IsPlaceholder(o)
    THEN IF ShouldReload(res.placeholderReloaded)
         THEN /\ res' = [r EXCEPT !.placeholderReloaded = TRUE,
                                  !.reloadAtPoll = r.polls]
              /\ hpc' = "reload"
         ELSE /\ res' = [r EXCEPT !.outcome = "false_placeholder"]
              /\ hpc' = "returned"
    ELSE /\ res' = r
         /\ hpc' = "wait"

\* the loop test passes and checkPlaceholder runs; page.evaluate can reject
PollCards ==
    /\ hpc = "poll" /\ res.polls < MaxPolls
    /\ \/ \E o \in Observations : AfterPoll(o, Polled(o))
       \/ /\ res' = [res EXCEPT !.outcome = "thrown"]
          /\ hpc' = "returned"
    /\ UNCHANGED <<fn, arg, dvars, pvars, rvars>>

\* the loop test fails: Date.now() - start >= timeout, never at the first
\* test with the timeouts of the callers (30 s and 45 s)
TimeIsUp ==
    /\ hpc = "poll" /\ res.polls >= 1
    /\ res' = [res EXCEPT !.outcome = "false_timeout"]
    /\ hpc' = "returned"
    /\ UNCHANGED <<fn, arg, dvars, pvars, rvars>>

\* page.reload(...).catch(() => {}) and waitForNetworkIdleOrTimeout, which
\* swallow their errors, then continue
ReloadPage ==
    /\ hpc = "reload"
    /\ res' = [res EXCEPT !.reloads = @ + 1]
    /\ hpc' = "poll"
    /\ UNCHANGED <<fn, arg, dvars, pvars, rvars>>

\* await page.waitForTimeout(800)
WaitBeforeNextPoll ==
    /\ hpc = "wait"
    /\ \/ hpc' = "poll" /\ UNCHANGED res
       \/ /\ res' = [res EXCEPT !.outcome = "thrown"]
          /\ hpc' = "returned"
    /\ UNCHANGED <<fn, arg, dvars, pvars, rvars>>

RealCardsNext ==
    \/ PollCards
    \/ TimeIsUp
    \/ ReloadPage
    \/ WaitBeforeNextPoll

SpecRealCards == RealCardsInit /\ [][RealCardsNext]_vars

\* ---- C18 ----
\* C18: within one call the page is reloaded at most once, and that on the
\* first poll that sees placeholder markup; a second poll that sees
\* placeholder markup returns false; true is returned only by a poll that saw
\* at least minRealCards real cards.
C18_OneReloadThenFalse ==
    /\ res.reloads <= 1
    /\ res.reloadAtPoll = res.firstPlaceholderPoll
    /\ res.reloads = 1 => res.firstPlaceholderPoll >= 1
    /\ res.placeholderPolls <= 2
    /\ res.placeholderPolls = 2
          => /\ hpc = "returned" /\ res.outcome = "false_placeholder"
             /\ IsPlaceholder(res.last)
    /\ res.outcome = "false_placeholder" => res.placeholderPolls = 2 /\ res.reloads = 1
    /\ res.outcome = "true"
          => /\ res.polls >= 1
             /\ res.last.realCards >= MinRealCards

\* a call that saw real cards first, then placeholder markup, reloaded, saw
\* some cards again and then placeholder markup once more, and returned false
C18_Witness ==
    /\ hpc = "returned" /\ res.outcome = "false_placeholder"
    /\ res.polls = 4 /\ res.firstPlaceholderPoll = 2 /\ res.reloads = 1

----------------------------------------------------------------------------
(* The shard of the store list (scraper_ct.js:40-91): storesToProcess from *)
(* SHARD_INDEX, TOTAL_SHARDS and the store list.  The stores are numbered  *)
(* by their place in data/canadian_tire_stores.json.                       *)

\* an environment variable that is not set
Unset == <<"undefined">>

JsNaN == [kind |-> "NaN", n |-> 0]

JsInt(n) == [kind |-> "int", n |-> n]

\* the digits parseInt reads behind the optional sign
IntOfDigits(t, negative, from, n) ==
    IF n = 0 THEN JsNaN
    ELSE JsInt((IF negative THEN 0 - 1 ELSE 1) * DigitsToInt(SubSeq(t, from, from + n - 1)))

ParseSigned(t, signed) ==
    IntOfDigits(t, signed /\ t[1] = "-", IF signed THEN 2 ELSE 1,
                DigitRun(t, IF signed THEN 2 ELSE 1))

ParseTrimmed(t) == ParseSigned(t, t # <<>> /\ t[1] \in {"+", "-"})

\* parseInt(s, 10): leading white space, a sign, then the longest run of
\* digits; NaN without a digit
parseInt10(s) == ParseTrimmed(TrimLeft(s))

\* raw ? parseInt(raw, 10) : 0
ShardNumber(raw) == IF raw = Unset \/ raw = <<>> THEN JsInt(0) ELSE parseInt10(raw)

isFinite(x) == x.kind = "int"

\* the limit of 8 stores per shard
MaxPerShardLimit == 8

Min(a, b) == IF a <= b THEN a ELSE b

\* Math.ceil(a / b) for a >= 0 and b > 0
CeilDiv(a, b) == (a + b - 1) \div b

\* Array.prototype.slice(start, end) for 0 <= start
Slice(list, start, end) == SubSeq(list, start + 1, Min(end, Len(list)))

\* shardIndex taken as it is, without the conversion to 0-based
ZeroBasedIndex_NoShift(shardIndex) == Max(0, shardIndex)

\* Math.max(0, shardIndex - 1)
ZeroBasedIndex(shardIndex) == Max(0, shardIndex - 1)

ShardSlice(baseStores, start, storesPerShard) ==
    Slice(baseStores, start, Min(start + storesPerShard, Len(baseStores)))

ShardOfSize(baseStores, shardIndex, storesPerShard) ==
    ShardSlice(baseStores, ZeroBasedIndex(shardIndex) * storesPerShard, storesPerShard)

\* storesToProcess after lines 70-91
storesToProcess(baseStores, shardIndex, totalShards) ==
    IF ~isFinite(shardIndex) \/ ~isFinite(totalShards) \/ totalShards.n <= 0
    THEN baseStores
    ELSE ShardOfSize(baseStores, shardIndex.n,
                     Min(CeilDiv(Len(baseStores), totalShards.n), MaxPerShardLimit))

MaxStoreCount == 20

\* values of SHARD_INDEX and TOTAL_SHARDS
ShardTexts ==
    { Unset, <<>>, <<"0">>, <<"1">>, <<"2">>, <<"3">>, <<"4">>, <<"-", "1">>,
      <<"a", "b", "c">>, <<"2", "x">>, <<" ", "3">>, <<"+", "2">>, <<"x", "1">> }

ShardInit ==
    /\ fn = "storesToProcess"
    /\ arg \in [rawShardIndex : ShardTexts, rawTotalShards : ShardTexts,
                baseStores : {[i \in 1..n |-> i] : n \in 1..MaxStoreCount}]
    /\ res = <<>>
    /\ hpc = "ready"
    /\ DedupIdle /\ StoreRunIdle /\ RunIdle

SelectShard ==
    /\ hpc = "ready" /\ fn = "storesToProcess"
    /\ res' = storesToProcess(arg.baseStores, ShardNumber(arg.rawShardIndex),
                              ShardNumber(arg.rawTotalShards))
    /\ hpc' = "returned"
    /\ UNCHANGED <<fn, arg, dvars, pvars, rvars>>

ShardNext == SelectShard

SpecShard == ShardInit /\ [][ShardNext]_vars

\* ---- C19 ----
GivenIndex == ShardNumber(arg.rawShardIndex)

GivenTotal == ShardNumber(arg.rawTotalShards)

StoreCount == Len(arg.baseStores)

ValidShard ==
    /\ isFinite(GivenIndex) /\ isFinite(GivenTotal)
    /\ GivenTotal.n >= 1
    /\ 1 <= GivenIndex.n /\ GivenIndex.n <= GivenTotal.n

\* k = min(ceil(N / T), 8), the ceiling as the least c with c * T >= N
ShardSize ==
    Min(CHOOSE c \in 1..StoreCount : c * GivenTotal.n >= StoreCount /\ (c - 1) * GivenTotal.n < StoreCount, 8)

\* the stores at the 0-based places [from, to) of the list, in its order
AtPlaces(from, to) == SelectSeq(arg.baseStores, LAMBDA s : from < s /\ s <= to)

\* C19: with a valid shardIndex i of totalShards T over N stores, the stores
\* selected are those at places [(i-1)*k, min(i*k, N)) of the list in its
\* order, with k = min(ceil(N/T), 8); a shard never holds more than 8 stores.
C19_ShardIsContiguousSlice ==
    (hpc = "returned" /\ fn = "storesToProcess" /\ ValidShard)
        => /\ res = AtPlaces((GivenIndex.n - 1) * ShardSize,
                             Min(GivenIndex.n * ShardSize, StoreCount))
           /\ Len(res) <= 8

\* shard 2 of 2 over 20 stores: the cap of 8 applies and the slice is the
\* stores at places 8..15
C19_Witness ==
    /\ hpc = "returned" /\ fn = "storesToProcess" /\ ValidShard
    /\ GivenIndex.n = 2 /\ GivenTotal.n = 2 /\ StoreCount = 20
    /\ res = [j \in 1..8 |-> 8 + j]

\* ---- C20 ----
\* one of the two numbers is absent or invalid
InvalidShard ==
    \/ arg.rawShardIndex \in {Unset, <<>>}
    \/ arg.rawTotalShards \in {Unset, <<>>}
    \/ ~isFinite(GivenIndex) \/ ~isFinite(GivenTotal)
    \/ GivenTotal.n <= 0
    \/ GivenIndex.n < 1 \/ GivenIndex.n > GivenTotal.n

\* C20: when SHARD_INDEX or TOTAL_SHARDS is unset or not a number, when
\* TOTAL_SHARDS <= 0 or when the shard index is outside 1..totalShards, the
\* whole store list is selected.
C20_InvalidShardSelectsAllStores ==
    (hpc = "returned" /\ fn = "storesToProcess" /\ InvalidShard)
        => res = arg.baseStores

----------------------------------------------------------------------------
(* One store run of scraper_ct.js while the stop flag is raised.  The     *)
(* source declares the flag (scraper_ct.js:46) and reads it through        *)
(* hasReachedTimeLimit (97-101); no statement of the source assigns it, so *)
(* the raising itself is taken from the specification's "coarse-grained    *)
(* stop flag" and can happen between any two awaited steps.                *)

StopInit == StoreInit /\ impl = "scraper_ct"

\* the stop flag is raised from outside the store run
RaiseStop ==
    /\ ~stopRequested
    /\ pc \notin {"done", "rejected"}
    /\ stopRequested' = TRUE
    /\ UNCHANGED <<runPc, batchStart, st, session, hvars, dvars, pvars>>

StopNext ==
    \/ Launch
    \/ NewContext
    \/ Setup
    \/ PageLoop
    \/ Goto
    \/ WaitProductsStable
    \/ ExtractPage
    \/ Aggregate
    \/ WriteOutput
    \/ CloseBrowser
    \/ RaiseStop

SpecStop == StopInit /\ [][StopNext]_vars

\* ---- C21 ----
\* a page is in flight from its first page.goto to its stop decision
PageInFlight == pc \in {"goto", "stable", "extract"}

\* where a step of a page in flight can lead, whatever the flag says
PageStepLeads ==
    /\ (pc = "goto" /\ pc' # pc) => pc' \in {"stable", "close"}
    /\ (pc = "stable" /\ pc' # pc) => pc' \in {"extract", "aggregate"}
    /\ (pc = "extract" /\ pc' # pc) =>
          \/ pc' = "close"
          \/ Len(pages') = Len(pages) + 1 /\ stopReason' = "none" /\ pc' = "loop"
          \/ Len(pages') = Len(pages) + 1 /\ stopReason' # "none" /\ pc' = "aggregate"

\* every step of the page in flight can still be taken
PageStepsEnabled ==
    /\ pc = "goto" => ENABLED (Goto /\ pc' = "stable")
    /\ pc = "stable" => ENABLED (WaitProductsStable /\ pc' = "extract")
    /\ pc = "extract" => ENABLED (ExtractPage /\ Len(pages') = Len(pages) + 1)

\* C21 as stated: the flag is read only before a batch and before a store is
\* launched, so a store run that has started goes on to the navigation of
\* every page within the maximum, and a page in flight completes.
C21_FlagReadOnlyAtLaunch ==
    [][/\ (pc = "loop" /\ pc' # pc /\ WithinMaxPages(pageNum, maxPages)) => pc' = "goto"
       /\ PageStepLeads]_vars

\* C21: the flag is read before a store is launched and at the head of every
\* turn of the page loop, before that page's navigation: a raised flag ends
\* the loop there with the records of the pages already decided.  Raising
\* the flag never interrupts a page in flight: navigation, stabilisation,
\* extraction and the stop decision go on as they would without it.
C21_FlagReadAtLaunchAndPageHead ==
    /\ [](stopRequested /\ PageInFlight => PageStepsEnabled)
    /\ [][/\ (pc = "start" /\ pc' # pc /\ stopRequested) => pc' = "done"
          /\ (pc = "loop" /\ pc' # pc /\ stopRequested)
                => pc' = "aggregate" /\ items' = items /\ navigated' = navigated
          /\ (pc = "loop" /\ pc' # pc /\ ~stopRequested /\ WithinMaxPages(pageNum, maxPages))
                => pc' = "goto"
          /\ PageStepLeads]_vars

\* the flag was raised during the run and ended the page loop at the head of
\* page 3, after pages 1 and 2 were navigated, extracted and decided
C21_Witness ==
    /\ stopRequested /\ pc = "aggregate" /\ stopReason = "none"
    /\ navigated = {1, 2} /\ Len(pages) = 2
    /\ pageNum = 3 /\ WithinMaxPages(pageNum, maxPages)

----------------------------------------------------------------------------
(* The page loops of two stores of one batch side by side                  *)
(* (scraper_ct.js:1118-1206).  Every call of scrapeStoreAllPages has its   *)
(* own pageNum and retries; a call gives way to the other calls at each    *)
(* await.  st[s].began and st[s].decided are history: the pages whose      *)
(* navigation has begun and the pages whose stop decision has been taken.  *)

PageCursor(n) == [at |-> "head", pageNum |-> n, retries |-> 0, began |-> {}, decided |-> {}]

PagesInit ==
    /\ HarnessIdle /\ DedupIdle /\ StoreRunIdle
    /\ stopRequested = FALSE /\ runPc = "await" /\ batchStart = 0
    /\ st = [s \in BatchStoreIds |-> PageCursor(1)]
    /\ session = [s \in BatchStoreIds |-> TRUE]

\* one page number that every call of scrapeStoreAllPages advances
NextPageNum_Shared(cursors, s) ==
    1 + CHOOSE n \in {cursors[t].pageNum : t \in DOMAIN cursors} :
            \A t \in DOMAIN cursors : cursors[t].pageNum <= n

\* pageNum++ of the for loop: pageNum is a variable of the call for store s
NextPageNum(cursors, s) == cursors[s].pageNum + 1

\* the head of the for loop of store s, up to the first page.goto
PagesHead(s) ==
    /\ st[s].at = "head"
    /\ IF WithinMaxPages(st[s].pageNum, MaxPagesArg) /\ ~hasReachedTimeLimit(stopRequested)
       THEN st' = [st EXCEPT ![s].at = "goto", ![s].retries = RetriesPerPage,
                             ![s].began = @ \cup {st[s].pageNum}]
       ELSE st' = [st EXCEPT ![s].at = "returned"]
    /\ UNCHANGED <<stopRequested, runPc, batchStart, session, hvars, dvars, pvars>>

\* one page.goto of store s: it succeeds, or fails and is retried after the
\* pause, or fails for the third time and the call throws
PagesGoto(s) ==
    /\ st[s].at = "goto"
    /\ \/ st' = [st EXCEPT ![s].at = "stable"]
       \/ st' = [st EXCEPT ![s].retries = @ - 1,
                           ![s].at = IF st[s].retries - 1 = 0 THEN "thrown" ELSE "goto"]
    /\ UNCHANGED <<stopRequested, runPc, batchStart, session, hvars, dvars, pvars>>

\* waitProductsStable of store s: false ends the loop
PagesStable(s) ==
    /\ st[s].at = "stable"
    /\ \E next \in {"extract", "returned"} : st' = [st EXCEPT ![s].at = next]
    /\ UNCHANGED <<stopRequested, runPc, batchStart, session, hvars, dvars, pvars>>

\* lazyWarmup, autoScrollLoadAllProducts and extractPage of store s, then the
\* stop decision: break, or pageNum++ and the next turn; or one of them throws
PagesExtract(s) ==
    /\ st[s].at = "extract"
    /\ \/ st' = [st EXCEPT ![s].at = "thrown"]
       \/ st' = [st EXCEPT ![s].at = "returned", ![s].decided = @ \cup {st[s].pageNum}]
       \/ st' = [st EXCEPT ![s].at = "head", ![s].decided = @ \cup {st[s].pageNum},
                           ![s].pageNum = NextPageNum(st, s)]
    /\ UNCHANGED <<stopRequested, runPc, batchStart, session, hvars, dvars, pvars>>

PagesNext ==
    \/ \E s \in BatchStoreIds : PagesHead(s)
    \/ \E s \in BatchStoreIds : PagesGoto(s)
    \/ \E s \in BatchStoreIds : PagesStable(s)
    \/ \E s \in BatchStoreIds : PagesExtract(s)

SpecPages == PagesInit /\ [][PagesNext]_vars

\* ---- C22 ----
\* the pages 1..n of store s were taken in order: each began only after the
\* one before it was decided
InPageOrder(s) ==
    /\ st[s].began = 1..Cardinality(st[s].began)
    /\ st[s].decided = 1..Cardinality(st[s].decided)
    /\ Cardinality(st[s].began) - Cardinality(st[s].decided) \in {0, 1}
    /\ st[s].at \in {"goto", "stable", "extract"}
          => /\ st[s].began = 1..st[s].pageNum
             /\ st[s].decided = 1..(st[s].pageNum - 1)

\* C22: in each store run, however its steps interleave with the steps of
\* the other store, the navigation of page k+1 begins only when page k has
\* been extracted and its stop decision taken.
C22_PagesStrictlySequential == \A s \in BatchStoreIds : InPageOrder(s)

\* one store is extracting its page 3 while the other is still navigating
\* to its page 2
C22_Witness ==
    \E s, t \in BatchStoreIds :
        /\ s # t
        /\ st[s].at = "extract" /\ st[s].pageNum = 3
        /\ st[t].at = "goto" /\ st[t].pageNum = 2 /\ st[t].retries < RetriesPerPage

----------------------------------------------------------------------------
(* The start of a run: which stores it targets (scraper_ct.js:32-140,      *)
(* canadian_tire_scraper.mjs:172-201), and what a fault of a store run     *)
(* does to the process (scraper_ct.js:1384-1422, mjs:198-201).             *)
(* arg.listed is the content of canadian_tire_stores.json, <<>> when the   *)
(* file is absent or holds an empty list; arg.storeId and arg.store are    *)
(* --storeId and --store.  --city is taken as not given.                   *)

\* a JavaScript text that counts as true
TruthyText(t) == t # Unset /\ t # Null /\ t # <<>>

\* a || b for two texts
FirstTruthy(a, b) == IF TruthyText(a) THEN a ELSE b

\* list.filter((store) => String(store.storeId) === String(id))
StoresWithId(list, id) == SelectSeq(list, LAMBDA storeId : storeId = id)

\* lines 48-91 of scraper_ct.js on the fallback list: the shard of it
ShardedStores(listed, fallbackList, rawShardIndex, rawTotalShards) ==
    storesToProcess(IF Len(listed) > 0 THEN listed ELSE fallbackList,
                    ShardNumber(rawShardIndex), ShardNumber(rawTotalShards))

\* lines 136-140: the filter on --store or --storeId
FilteredStores(stores, storeFilter) ==
    IF TruthyText(storeFilter) THEN StoresWithId(stores, storeFilter) ELSE stores

\* the module body of scraper_ct.js down to run(): the stores to process, or
\* the throw of line 62
StartOfScraperCt(a) ==
    IF Len(a.listed) = 0 /\ ~TruthyText(FirstTruthy(a.storeId, a.store))
    THEN [fatal |-> TRUE, targets |-> <<>>]
    ELSE [fatal |-> FALSE,
          targets |-> FilteredStores(
              ShardedStores(a.listed, <<FirstTruthy(a.storeId, a.store)>>,
                            a.rawShardIndex, a.rawTotalShards),
              FirstTruthy(a.store, a.storeId))]

\* stores.filter(...) of main, and the single target when nothing is left
LegacyFiltered(stores, STORE_ID) ==
    IF StoresWithId(stores, STORE_ID) = <<>> THEN <<STORE_ID>>
    ELSE StoresWithId(stores, STORE_ID)

\* main of the older scraper down to the Promise.all: STORE_ID is --store
StartOfLegacy(a) ==
    IF Len(a.listed) = 0 /\ ~TruthyText(a.store)
    THEN [fatal |-> TRUE, targets |-> <<>>]
    ELSE [fatal |-> FALSE,
          targets |-> IF TruthyText(a.store)
                      THEN LegacyFiltered(a.listed, a.store) ELSE a.listed]

CliStoreIds == {Unset, <<"4", "1", "8">>, <<"2", "7", "1">>}

StoreLists == {<<>>, <<<<"4", "1", "8">>>>, <<<<"4", "1", "8">>, <<"2", "7", "1">>>>}

StartShardTexts == {Unset, <<"1">>, <<"2">>}

\* how a store run ends: without fault, with a fault inside the try (a page
\* fault, caught and logged in scrapeStore), or with a fault outside it
\* (launch, newContext, browser.close, the write of the older scraper), which
\* rejects the promise of the store run
StoreOutcomes == {"ok", "page_fault", "store_fault"}

StartInit ==
    /\ fn \in {"scraper_ct", "legacy"}
    /\ arg \in [listed : StoreLists, storeId : CliStoreIds, store : CliStoreIds,
                rawShardIndex : StartShardTexts, rawTotalShards : StartShardTexts]
    /\ res = [fatal |-> FALSE, targets |-> <<>>, ended |-> {}, process |-> "starting"]
    /\ hpc = "ready"
    /\ DedupIdle /\ StoreRunIdle /\ RunIdle

StartedAs(r) ==
    res' = [fatal |-> r.fatal, targets |-> r.targets, ended |-> {},
            process |-> IF r.fatal THEN "halted" ELSE "running"]

\* the process starts: the targets are selected, or it ends with the error
SelectTargets ==
    /\ hpc = "ready"
    /\ StartedAs(IF fn = "scraper_ct" THEN StartOfScraperCt(arg) ELSE StartOfLegacy(arg))
    /\ hpc' = "running"
    /\ UNCHANGED <<fn, arg, dvars, pvars, rvars>>

\* scraper_ct.js: scrapeStore(store).catch(...) fulfils, run() goes on.
\* Older scraper: limit(() => scrapeStore(store)) rejects, Promise.all and
\* main() reject, and nothing handles the rejection: Node ends the process
\* with an error (its default since version 15) or only warns
ProcessAfter(scraper, outcome) ==
    IF scraper = "legacy" /\ outcome = "store_fault" THEN {"halted", "running"}
    ELSE {"running"}

\* the run of target i ends
StoreRunEnds(i) ==
    /\ hpc = "running" /\ res.process = "running"
    /\ i \in (1..Len(res.targets)) \ res.ended
    /\ \E outcome \in StoreOutcomes : \E p \in ProcessAfter(fn, outcome) :
          res' = [res EXCEPT !.ended = @ \cup {i}, !.process = p]
    /\ UNCHANGED <<fn, arg, hpc, dvars, pvars, rvars>>

\* every store run has ended: run() / main() returns
ProcessExits ==
    /\ hpc = "running" /\ res.process = "running"
    /\ res.ended = 1..Len(res.targets)
    /\ res' = [res EXCEPT !.process = "exited"]
    /\ hpc' = "returned"
    /\ UNCHANGED <<fn, arg, dvars, pvars, rvars>>

StartNext ==
    \/ SelectTargets
    \/ \E i \in 1..2 : StoreRunEnds(i)
    \/ ProcessExits

SpecStart == StartInit /\ [][StartNext]_vars

\* ---- C23 ----
\* the store id given on the command line
CliGiven == IF fn = "legacy" THEN {arg.store} \ {Unset} ELSE {arg.storeId, arg.store} \ {Unset}

\* C23: with no store list, the run has exactly one target, built from the
\* store id of the command line, when one is given, and otherwise the
\* process halts with the fatal error before any store run; the process
\* never halts for another reason, whatever faults the store runs meet.
C23_FallbackTargetOrFatalOnly ==
    hpc # "ready" =>
        /\ (arg.listed = <<>> /\ CliGiven # {})
              => ~res.fatal /\ \E id \in CliGiven : res.targets = <<id>>
        /\ (arg.listed = <<>> /\ CliGiven = {}) => res.fatal /\ res.ended = {}
        /\ res.process = "halted" => res.fatal

----------------------------------------------------------------------------
(* Debug capture of the paginated scraper (canadian_tire_scraper.mjs):     *)
(* savePagePriceDebugArtifacts (648-662) called by extractProductsOnPage   *)
(* (2361-2386) and savePageDebugArtifacts (620-646) called by              *)
(* waitProductsStableWithRetries after its last attempt (682-688).         *)
(* scrapeStore always passes debugDir = OUT_BASE/debug (2230).  arg.faults *)
(* are the capture steps that fail in this run.                            *)

CaptureSteps == {"ensureDir", "screenshot", "content", "writeHtml", "writeFile"}

\* the listings the capture is tried on: PageChoices and a page whose only
\* card has no readable price
DebugPageChoices == PageChoices \cup {<<CardZ1>>}

HasAnyPrice(card) ==
    PriceOf(card.price_original_raw).kind = "num" \/ PriceOf(card.price_sale_raw).kind = "num"

IsDeal50(card) ==
    MeetsThreshold(computeDiscountPercent(PriceOf(card.price_original_raw),
                                          PriceOf(card.price_sale_raw)))

\* stats.cardsDetected > 0 &&
\*   (stats.withAnyPrice === 0 || (pageNum === 1 && stats.deals50 === 0))
needsPriceDebug(cards, n) ==
    /\ Len(cards) > 0
    /\ \/ \A i \in 1..Len(cards) : ~HasAnyPrice(cards[i])
       \/ n = 1 /\ \A i \in 1..Len(cards) : ~IsDeal50(cards[i])

\* the artifacts Promise.all leaves behind: each of the three promises has
\* its own .catch(() => {})
ArtifactsWritten(faults) ==
    (IF "screenshot" \in faults THEN {} ELSE {"png"})
    \cup (IF "content" \in faults \/ "writeHtml" \in faults THEN {} ELSE {"html"})
    \cup (IF "writeFile" \in faults THEN {} ELSE {"text"})

NoCapture == [records |-> <<>>, captured |-> {}, raised |-> FALSE, loop |-> "running"]

DebugInit ==
    /\ fn \in {"extractProductsOnPage", "waitProductsStableWithRetries"}
    /\ arg \in [cards : DebugPageChoices, pageNum : 1..2, faults : SUBSET CaptureSteps]
    /\ res = NoCapture
    /\ hpc = "ready"
    /\ DedupIdle /\ StoreRunIdle /\ RunIdle

\* extractProductsOnPage down to needsPriceDebug; waitProductsStableWithRetries
\* down to the failure of its last attempt (without it no capture is tried)
ReachTrigger ==
    /\ hpc = "ready"
    /\ IF fn = "extractProductsOnPage"
       THEN /\ res' = [res EXCEPT !.records = extractProductsOnPage(arg.cards, HarnessStore).records]
            /\ hpc' = IF needsPriceDebug(arg.cards, arg.pageNum) THEN "capture" ELSE "return"
       ELSE /\ hpc' \in {"capture", "return"}
            /\ UNCHANGED res
    /\ UNCHANGED <<fn, arg, dvars, pvars, rvars>>

\* await fsExtra.ensureDir(debugDir): nothing catches its rejection
EnsureDebugDir ==
    /\ hpc = "capture"
    /\ IF "ensureDir" \in arg.faults
       THEN res' = [res EXCEPT !.raised = TRUE] /\ hpc' = "thrown"
       ELSE UNCHANGED res /\ hpc' = "artifacts"
    /\ UNCHANGED <<fn, arg, dvars, pvars, rvars>>

\* await Promise.all([screenshot, content -> writeFile, writeFile])
CaptureArtifacts ==
    /\ hpc = "artifacts"
    /\ res' = [res EXCEPT !.captured = ArtifactsWritten(arg.faults)]
    /\ hpc' = "return"
    /\ UNCHANGED <<fn, arg, dvars, pvars, rvars>>

\* the function returns to the page loop: the page's result, or false and
\* the loop returns the items it has
ReturnToLoop ==
    /\ hpc = "return"
    /\ res' = [res EXCEPT !.loop = IF fn = "extractProductsOnPage" THEN "page_done" ELSE "ended"]
    /\ hpc' = "returned"
    /\ UNCHANGED <<fn, arg, dvars, pvars, rvars>>

\* the rejection leaves extractProductsOnPage / waitProductsStableWithRetries
\* and scrapeCategoryAllPages (its finally only clears the watchdog) and
\* reaches the catch of scrapeStore: nothing is aggregated or written
ThrowToStore ==
    /\ hpc = "thrown"
    /\ res' = [res EXCEPT !.records = <<>>, !.loop = "aborted"]
    /\ hpc' = "store_failed"
    /\ UNCHANGED <<fn, arg, dvars, pvars, rvars>>

DebugNext ==
    \/ ReachTrigger
    \/ EnsureDebugDir
    \/ CaptureArtifacts
    \/ ReturnToLoop
    \/ ThrowToStore

SpecDebug == DebugInit /\ [][DebugNext]_vars

\* ---- C24 ----
\* C24: whichever debug-capture steps fail (directory creation, screenshot,
\* HTML dump, log or url write), nothing is raised: the page's records are
\* returned as without the capture, the page loop is not aborted and the
\* store run does not fail.
C24_CaptureFailuresSwallowed ==
    /\ ~res.raised /\ res.loop # "aborted"
    /\ hpc \notin {"thrown", "store_failed"}
    /\ (hpc = "returned" /\ fn = "extractProductsOnPage")
          => res.records = extractProductsOnPage(arg.cards, HarnessStore).records

----------------------------------------------------------------------------
(* buildStableDedupKey on two records (scraper_ct.js:561-579).  The        *)
(* records carry the fields the function reads, with the values            *)
(* createRecordFromCard can give them (a text or null) and the empty text. *)

KeyedRecord(productKey, storeId, sku, skuFormatted, url) ==
    [product_key |-> productKey, store_id |-> storeId, sku |-> sku,
     sku_formatted |-> skuFormatted, url |-> url]

ProductKeyTexts == {Null, <<>>, <<"c","t",":","1">>, <<"C","T",":","1">>}

KeyStoreTexts == {Null, <<"4","1","8">>, <<"2","7","1">>}

SkuTexts == {Null, <<>>, <<"a","1">>, <<"A","1">>}

SkuFormattedTexts == {Null, <<"b","-","2">>}

\* the last one has no host: new URL throws on it
UrlTexts == {Null, <<"/","p","/","X","?","c","=","1">>, <<"/","P","/","x","#","t","o","p">>, <<"/","p","/","y">>, <<"h","t","t","p",":","/","/","?","C","=","1">>}

KeyedRecords ==
    {KeyedRecord(k, s, u, f, l) : k \in ProductKeyTexts, s \in KeyStoreTexts,
                                  u \in SkuTexts, f \in SkuFormattedTexts, l \in UrlTexts}

\* the records the first one is compared with
OtherRecords ==
    {KeyedRecord(k, s, u, Null, l) : k \in {Null, <<"c","t",":","1">>}, s \in KeyStoreTexts,
                                     u \in {Null, <<"z","9">>}, l \in {Null, <<"/","p","/","y">>}}

DedupKeyInit ==
    /\ fn = "buildStableDedupKey"
    /\ arg \in [a : KeyedRecords, b : OtherRecords]
    /\ res = <<>>
    /\ hpc = "ready"
    /\ DedupIdle /\ StoreRunIdle /\ RunIdle

CallBuildStableDedupKey ==
    /\ hpc = "ready" /\ fn = "buildStableDedupKey"
    /\ res' = [a |-> buildStableDedupKey(arg.a), b |-> buildStableDedupKey(arg.b)]
    /\ hpc' = "returned"
    /\ UNCHANGED <<fn, arg, dvars, pvars, rvars>>

DedupKeyNext == CallBuildStableDedupKey

SpecDedupKey == DedupKeyInit /\ [][DedupKeyNext]_vars

\* ---- C25 ----
Present(t) == t # Null /\ t # <<>>

\* the sku identity of a record: sku, or sku_formatted when sku is null
SkuOf(r) == IF r.sku # Null THEN r.sku ELSE r.sku_formatted

\* u without its query and fragment, lower-cased
IsStrippedUrl(id, u) ==
    /\ Len(id) <= Len(u)
    /\ \A i \in 1..Len(id) : id[i] = LowerChar(u[i]) /\ u[i] \notin {"?", "#"}
    /\ Len(id) < Len(u) => u[Len(id) + 1] \in {"?", "#"}

\* k is the key of the highest-priority identity r carries, the URL always
\* without its query and fragment
KeyByPriority(r, k) ==
    IF Present(r.product_key)
    THEN k.kind = "product_key" /\ k.store = Null /\ k.id = toLowerCase(r.product_key)
    ELSE IF Present(r.store_id) /\ Present(SkuOf(r))
    THEN k.kind = "sku" /\ k.store = r.store_id /\ k.id = toLowerCase(SkuOf(r))
    ELSE IF Present(r.store_id) /\ Present(r.url)
    THEN k.kind = "url" /\ k.store = r.store_id /\ IsStrippedUrl(k.id, r.url)
    ELSE k = NoKey

\* the same, a URL that cannot be parsed being lower-cased as it is
KeyByPriorityParsed(r, k) ==
    IF Present(r.product_key)
    THEN k.kind = "product_key" /\ k.store = Null /\ k.id = toLowerCase(r.product_key)
    ELSE IF Present(r.store_id) /\ Present(SkuOf(r))
    THEN k.kind = "sku" /\ k.store = r.store_id /\ k.id = toLowerCase(SkuOf(r))
    ELSE IF Present(r.store_id) /\ Present(r.url)
    THEN /\ k.kind = "url" /\ k.store = r.store_id
         /\ IF UrlThrows(r.url) THEN k.id = toLowerCase(r.url)
            ELSE IsStrippedUrl(k.id, r.url)
    ELSE k = NoKey

SameProductKeySameKey ==
    (Present(arg.a.product_key) /\ arg.a.product_key = arg.b.product_key)
        => res.a = res.b

\* C25 as stated: the dedup key of a record is that of the productKey when
\* it carries one; otherwise that of (storeId, sku) when it carries both;
\* otherwise that of (storeId, URL without query and fragment, lower-cased)
\* when it carries both; otherwise there is no key.  Two records with the
\* same productKey have the same key whatever their other fields.
C25_DedupKeyPriorityChainStripped ==
    (hpc = "returned" /\ fn = "buildStableDedupKey") =>
        /\ KeyByPriority(arg.a, res.a)
        /\ KeyByPriority(arg.b, res.b)
        /\ SameProductKeySameKey

\* C25: the same priority chain, where the URL of the third link has its
\* query and fragment removed when it can be parsed and is only lower-cased
\* when it cannot.  Two records with the same productKey have the same key
\* whatever their sku, URL and store fields.
C25_DedupKeyPriorityChain ==
    (hpc = "returned" /\ fn = "buildStableDedupKey") =>
        /\ KeyByPriorityParsed(arg.a, res.a)
        /\ KeyByPriorityParsed(arg.b, res.b)
        /\ SameProductKeySameKey

\* two records with the same productKey and different store, sku and URL got
\* the same key
C25_Witness ==
    /\ hpc = "returned" /\ fn = "buildStableDedupKey"
    /\ Present(arg.a.product_key) /\ arg.a.product_key = arg.b.product_key
    /\ Present(arg.a.store_id) /\ Present(arg.b.store_id) /\ arg.a.store_id # arg.b.store_id
    /\ Present(arg.a.sku) /\ Present(arg.b.sku) /\ arg.a.sku # arg.b.sku
    /\ Present(arg.a.url) /\ Present(arg.b.url) /\ arg.a.url # arg.b.url
    /\ res.a = res.b /\ res.a.kind = "product_key"

----------------------------------------------------------------------------
(* clickLoadMoreUntilNoGrowth (canadian_tire_scraper.mjs:1840-1903), as    *)
(* scrapeCategoryAllPages calls it: maxClicks 25, stableRoundsToStop 3.    *)
(* The listing behind the page has arg.reach cards; res.count of them are  *)
(* in the DOM.  The load-more control is visible while cards remain to be  *)
(* loaded, and stays visible afterwards on a page with arg.stuck.  A click *)
(* loads the next card or, when the page is slow or the click fails,       *)
(* nothing; a page that renders anew can also show one card less than the  *)
(* most it has shown.  res.maxSeen is the largest count the function read. *)

MaxClicks == 25

StableRoundsToStop == 3

\* the largest listing of the model
MaxReach == 27

LoadMoreInit ==
    /\ fn = "clickLoadMoreUntilNoGrowth"
    /\ arg \in [reach : 0..MaxReach, stuck : BOOLEAN]
    /\ res = [count |-> IF arg.reach = 0 THEN 0 ELSE 1,
              previousCount |-> IF arg.reach = 0 THEN 0 ELSE 1,
              maxSeen |-> IF arg.reach = 0 THEN 0 ELSE 1,
              attempt |-> 1, clicks |-> 0, stableRounds |-> 0,
              lastGrowthAt |-> 0, reason |-> "none"]
    /\ hpc = "head"
    /\ DedupIdle /\ StoreRunIdle /\ RunIdle

\* loadMoreButton.isVisible()
ButtonVisible == res.count < arg.reach \/ arg.stuck

\* the click cap with one click more
MoreAttempts25_OneMore(attempt) == attempt <= MaxClicks + 1

\* attempt <= maxClicks
MoreAttempts25(attempt) == attempt <= MaxClicks

\* the head of the for loop: the click cap, the time ceiling (it can have
\* passed at any turn), the visibility of the control
LoadMoreHead ==
    /\ hpc = "head"
    /\ \/ /\ ~MoreAttempts25(res.attempt)
          /\ res' = [res EXCEPT !.reason = "max_clicks"] /\ hpc' = "returned"
       \/ /\ MoreAttempts25(res.attempt)
          /\ res' = [res EXCEPT !.reason = "timeout"] /\ hpc' = "returned"
       \/ /\ MoreAttempts25(res.attempt) /\ ~ButtonVisible
          /\ res' = [res EXCEPT !.reason = "absent"] /\ hpc' = "returned"
       \/ /\ MoreAttempts25(res.attempt) /\ ButtonVisible
          /\ UNCHANGED res /\ hpc' = "click"
    /\ UNCHANGED <<fn, arg, dvars, pvars, rvars>>

\* the stable rounds counted without the reset
NextStableRounds_NoReset(stableRounds, newCount, previousCount) ==
    IF newCount <= previousCount THEN stableRounds + 1 ELSE stableRounds

\* stableRounds after a click
NextStableRounds(stableRounds, newCount, previousCount) ==
    IF newCount <= previousCount THEN stableRounds + 1 ELSE 0

\* the end of a turn, once the cards are counted again
AfterClick(newCount, stable) ==
    /\ res' = [res EXCEPT
                  !.count = newCount,
                  !.clicks = @ + 1,
                  !.attempt = @ + 1,
                  !.stableRounds = stable,
                  !.previousCount = IF newCount > @ THEN newCount ELSE @,
                  !.maxSeen = IF newCount > @ THEN newCount ELSE @,
                  !.lastGrowthAt = IF newCount > res.previousCount THEN res.clicks + 1 ELSE @,
                  !.reason = IF newCount <= res.previousCount /\ stable >= StableRoundsToStop
                             THEN "stable" ELSE "none"]
    /\ hpc' = IF newCount <= res.previousCount /\ stable >= StableRoundsToStop
              THEN "returned" ELSE "head"

\* the click, the waits and the new count; waitForRealCards or a wait can
\* reject, which ends the function with the error
LoadMoreClick ==
    /\ hpc = "click"
    /\ \/ \E loaded \in {0 - 1, 0, 1} :
             /\ res.count + loaded <= arg.reach
             /\ loaded < 0 => (res.count > 0 /\ res.count = res.previousCount)
             /\ AfterClick(res.count + loaded,
                           NextStableRounds(res.stableRounds, res.count + loaded,
                                            res.previousCount))
       \/ /\ res' = [res EXCEPT !.reason = "thrown"]
          /\ hpc' = "thrown"
    /\ UNCHANGED <<fn, arg, dvars, pvars, rvars>>

LoadMoreNext == LoadMoreHead \/ LoadMoreClick

SpecLoadMore == LoadMoreInit /\ [][LoadMoreNext]_vars

\* ---- C26 ----
\* a visible load-more control remains whose click would still add cards
MoreCardsLoadable == res.count < arg.reach

\* C26 as stated: when clickLoadMoreUntilNoGrowth returns, no visible
\* load-more control remains whose click would still add cards.
C26_ReturnsWithMaximalCardSet ==
    (fn = "clickLoadMoreUntilNoGrowth" /\ hpc = "returned") => ~MoreCardsLoadable

\* C26: when clickLoadMoreUntilNoGrowth returns, either no load-more control
\* is visible, and then every card of the listing is in the DOM, or the last
\* 3 clicks in a row added no card, or 25 clicks have been made, or the time
\* ceiling has passed; in the last three cases cards can remain to be
\* loaded.  It never clicks more than 25 times.
C26_ReturnsOnAbsentStableCapOrTime ==
    (fn = "clickLoadMoreUntilNoGrowth" /\ hpc = "returned") =>
        /\ res.reason \in {"absent", "stable", "max_clicks", "timeout"}
        /\ res.reason = "absent" => ~MoreCardsLoadable /\ ~ButtonVisible
        /\ res.reason = "stable" =>
              /\ res.clicks - res.lastGrowthAt = StableRoundsToStop
              /\ res.stableRounds = StableRoundsToStop
        /\ res.reason = "max_clicks" => res.clicks = MaxClicks
        /\ res.clicks <= MaxClicks

\* the function returned after 25 clicks of which the last added a card,
\* with a card of the listing still to be loaded
C26_Witness ==
    /\ fn = "clickLoadMoreUntilNoGrowth" /\ hpc = "returned"
    /\ res.reason = "max_clicks" /\ res.clicks = MaxClicks
    /\ res.lastGrowthAt = MaxClicks
    /\ MoreCardsLoadable

----------------------------------------------------------------------------
(* Where the stores of a run write (scraper_ct.js:623-633, 1217-1236,      *)
(* 1367-1371).  arg is the command line (--outBase, --storeId,             *)
(* --storeName) and the store file; the targets are those of the start of  *)
(* the run, without --store and without sharding.  res.files is the file   *)
(* system: which store wrote the data.json at each path.                   *)

IsAlnum(c) == c \in Digit \/ \E i \in 1..26 : c = UpperAlpha[i] \/ c = LowerAlpha[i]

\* white space runs become one "-"
RECURSIVE DashSpaces(_)
DashSpaces(s) ==
    IF s = <<>> THEN <<>>
    ELSE IF IsSpace(Head(s))
    THEN (IF Len(s) > 1 /\ IsSpace(s[2]) THEN <<>> ELSE <<"-">>) \o DashSpaces(Tail(s))
    ELSE <<Head(s)>> \o DashSpaces(Tail(s))

KeepAlnumAndSpaces(s) == SelectSeq(s, LAMBDA c : IsAlnum(c) \/ IsSpace(c))

\* slugify(name, { lower: true, strict: true }): accents mapped, everything
\* but letters, digits and white space removed, trimmed, white space runs
\* replaced by "-", lower-cased
slugify(name) == toLowerCase(DashSpaces(trim(KeepAlnumAndSpaces(stripAccents(name)))))

\* OUT_BASE of resolveOutputPaths: args.outBase when given
OutBaseOf(outBase, storeId, storeName) ==
    IF TruthyText(outBase) THEN <<outBase>>
    ELSE <<"outputs", "canadiantire", storeId \o <<"-">> \o slugify(storeName)>>

\* resolveOutputPaths(storeId ?? "", storeName || city || ""): jsonPath
resolveOutputPaths(outBase, storeId, storeName) ==
    Append(OutBaseOf(outBase, IF storeId = Null THEN <<>> ELSE storeId,
                     IF storeName = Null THEN <<>> ELSE storeName), "data.json")

\* storeName of each store of the store file
StoreNameOf(storeId) ==
    IF storeId = <<"4", "1", "8">> THEN <<"L", "a", "v", "a", "l", ",", " ", "Q", "C">>
    ELSE <<"L", "a", "v", "a", "l", " ", " ", "Q", "C">>

\* storeId and storeName as scrapeStore settles them (1217-1220)
StoreIdUsed(cliStoreId, storeId) == IF cliStoreId # Unset THEN cliStoreId ELSE storeId

StoreNameUsed(cliStoreName, storeId) ==
    IF TruthyText(cliStoreName) THEN cliStoreName ELSE StoreNameOf(storeId)

PathOfStore(a, storeId) ==
    resolveOutputPaths(a.outBase, StoreIdUsed(a.storeId, storeId),
                       StoreNameUsed(a.storeName, storeId))

CommandLines ==
    [outBase : {Unset, <<"o", "u", "t">>}, storeId : CliStoreIds,
     storeName : {Unset, <<"S", "t", "-", "J", "E_acute", "r">>},
     listed : StoreLists, store : {Unset},
     rawShardIndex : {Unset}, rawTotalShards : {Unset}]

PathsInit ==
    /\ fn = "resolveOutputPaths"
    /\ arg \in {a \in CommandLines : ~StartOfScraperCt(a).fatal}
    /\ res = [targets |-> StartOfScraperCt(arg).targets,
              at |-> [i \in 1..2 |-> "pending"],
              path |-> [i \in 1..2 |-> <<>>],
              files |-> {}]
    /\ hpc = "running"
    /\ DedupIdle /\ StoreRunIdle /\ RunIdle

\* scrapeStore(store) up to its first await: the paths are resolved
BeginStore(i) ==
    /\ i \in 1..Len(res.targets) /\ res.at[i] = "pending"
    /\ res' = [res EXCEPT !.at[i] = "running",
                          !.path[i] = PathOfStore(arg, res.targets[i])]
    /\ UNCHANGED <<fn, arg, hpc, dvars, pvars, rvars>>

\* fsExtra.remove(OUT_JSON) and fs.writeFileSync(OUT_JSON, ...) of store i;
\* or the run of the store fails before
EndStore(i) ==
    /\ i \in 1..Len(res.targets) /\ res.at[i] = "running"
    /\ \/ res' = [res EXCEPT
                     !.at[i] = "written",
                     !.files = {f \in @ : f.path # res.path[i]}
                               \cup {[path |-> res.path[i], owner |-> i]}]
       \/ res' = [res EXCEPT !.at[i] = "failed"]
    /\ UNCHANGED <<fn, arg, hpc, dvars, pvars, rvars>>

PathsNext ==
    \/ \E i \in 1..2 : BeginStore(i)
    \/ \E i \in 1..2 : EndStore(i)

SpecPaths == PathsInit /\ [][PathsNext]_vars

\* ---- C27 ----
\* C27: two distinct stores of one run never resolve to the same output
\* path, whatever the command line, and the output a store has written stays
\* that store's.
C27_DistinctStoresDistinctPaths ==
    fn = "resolveOutputPaths" =>
        \A i, j \in 1..Len(res.targets) :
            /\ (i # j /\ res.targets[i] # res.targets[j]
                  /\ res.at[i] # "pending" /\ res.at[j] # "pending")
                  => res.path[i] # res.path[j]
            /\ res.at[i] = "written" => [path |-> res.path[i], owner |-> i] \in res.files

----------------------------------------------------------------------------
(* Card extraction (scraper_ct.js:297-519).  A node is one listing tile of  *)
(* the page as the selectors see it: the text or attribute each selector    *)
(* finds, Null where it finds nothing.  anchor says whether the tile has    *)
(* its primary link; detached says whether evaluating the tile on its own   *)
(* throws.  arg is the page (its nodes, and whether evaluateAll over all    *)
(* of them throws); res is what scrapeListing gives back.                   *)

BASE == <<"h", "t", "t", "p", "s", ":", "/", "/", "c", "t">>

HasPrefix(s, pre) == OccursAt(s, pre, 1)

\* textFromEl(node): null without a node or without text, else the trimmed text
textFromEl(text) == IF text = Null \/ text = <<>> THEN Null ELSE trim(text)

\* the match of /(\d[\d\s.,]*)/ that starts at position i
RECURSIVE MoneyRun(_, _)
MoneyRun(s, i) ==
    IF i <= Len(s) /\ (s[i] \in Digit \/ IsSpace(s[i]) \/ s[i] \in {".", ","})
    THEN <<s[i]>> \o MoneyRun(s, i + 1)
    ELSE <<>>

\* the match without its white space, the text itself when nothing matches
CleanMoneyFrom(s, i) == IF i = 0 THEN s ELSE DropSpaces(MoneyRun(s, i))

\* cleanMoney(s)
cleanMoney(s) ==
    IF s = Null \/ s = <<>> THEN Null
    ELSE CleanMoneyFrom(trim(s), FirstDigitFrom(trim(s), 1))

\* image: src or data-src, made absolute
AbsoluteImage(image) ==
    IF ~TruthyText(image) THEN image
    ELSE IF HasPrefix(image, <<"/", "/">>) THEN <<"h", "t", "t", "p", "s", ":">> \o image
    ELSE IF HasPrefix(image, <<"/">>) THEN BASE \o image
    ELSE image

ImageOf(node) == OrNull(AbsoluteImage(FirstTruthy(node.imgSrc, node.imgDataSrc)))

\* link: the primary link, else the link around the title, else any product
\* link of the tile, made absolute
AbsoluteLink(link) ==
    IF TruthyText(link) /\ HasPrefix(link, <<"/">>) THEN BASE \o link ELSE link

PrimaryHref(node) == IF node.anchor THEN node.href ELSE Null

LinkOf(node) ==
    OrNull(AbsoluteLink(FirstTruthy(FirstTruthy(PrimaryHref(node), node.titleHref), node.anyHref)))

\* the badges that have a text
BadgesOf(node) == SelectSeq([i \in 1..Len(node.badges) |-> textFromEl(node.badges[i])], TruthyText)

\* href.match(/-([0-9]{7})p\.html/i)
SkuAt(href, i) ==
    /\ href[i] = "-" /\ AllDigits(href, i + 1, 7)
    /\ i + 13 <= Len(href)
    /\ toLowerCase(SubSeq(href, i + 8, i + 13)) = <<"p", ".", "h", "t", "m", "l">>

SkuFromAt(href, at) ==
    IF at = {} THEN Null
    ELSE SubSeq(href, (CHOOSE i \in at : \A j \in at : i <= j) + 1,
                (CHOOSE i \in at : \A j \in at : i <= j) + 7)

SkuOfHref(href) == SkuFromAt(href, {i \in 1..Len(href) : SkuAt(href, i)})

\* the run of digits and hyphens of s that starts at position i
RECURSIVE DigitHyphenRun(_, _)
DigitHyphenRun(s, i) ==
    IF i <= Len(s) /\ (s[i] \in Digit \/ s[i] = "-")
    THEN <<s[i]>> \o DigitHyphenRun(s, i + 1)
    ELSE <<>>

Promolisting == <<"p", "r", "o", "m", "o", "l", "i", "s", "t", "i", "n", "g", "-">>

SkuFormattedAt(label, i) ==
    /\ OccursAt(toLowerCase(label), Promolisting, i)
    /\ DigitHyphenRun(label, i + Len(Promolisting)) # <<>>

SkuFormattedFromAt(label, at) ==
    IF at = {} THEN Null
    ELSE DigitHyphenRun(label, (CHOOSE i \in at : \A j \in at : i <= j) + Len(Promolisting))

\* ariaLabelledby.match(/promolisting-([0-9-]+)/i)
SkuFormattedOfLabel(label) ==
    SkuFormattedFromAt(label, {i \in 1..Len(label) : SkuFormattedAt(label, i)})

\* getAttribute(...) || ""
AttrText(a) == IF TruthyText(a) THEN a ELSE <<>>

NodeSku(node) == IF node.anchor THEN SkuOfHref(AttrText(node.href)) ELSE Null

SkuFormattedOf(node) ==
    IF node.anchor THEN SkuFormattedOfLabel(AttrText(node.labelledby)) ELSE Null

\* the first formatted number of the text, null when it has none
FormattedNumberFrom(s, fm) ==
    IF fm = {} THEN Null
    ELSE SubSeq(s, CHOOSE i \in fm : \A j \in fm : i <= j,
                (CHOOSE i \in fm : \A j \in fm : i <= j)
                  + FormattedMatchLenAt(s, CHOOSE i \in fm : \A j \in fm : i <= j) - 1)

FormattedNumberIn(s) ==
    FormattedNumberFrom(s, {i \in 1..Len(s) : FormattedMatchLenAt(s, i) > 0})

\* extractSkuData(anchor).product_number_raw: the formatted number of the
\* label, else the eight digits of the href
AnchorNumberFrom(formatted, href) ==
    IF formatted # Null THEN formatted ELSE extractDigits_RawOnly(href)

AnchorProductNumber(node) ==
    IF node.anchor
    THEN AnchorNumberFrom(FormattedNumberIn(AttrText(node.labelledby)), AttrText(node.href))
    ELSE Null

LabelOf(node) == IF node.anchor THEN node.labelledby ELSE Null

\* product_number_raw of scrapeListing: extractProductNumberRaw([...]) is
\* the first source that holds a number
ListingNumberFrom(node, sku_formatted, sku, link, title) ==
    extractCtProductNumberRaw(<<AnchorProductNumber(node), sku_formatted, sku, link, title, LabelOf(node)>>)

\* product_number_raw of extractFromCard: label, href, then link, title
CardNumberOf(node, link, title) ==
    extractCtProductNumberRaw(
        IF node.anchor THEN <<AttrText(node.labelledby), AttrText(node.href), link, title>>
        ELSE <<link, title>>)

\* what is common to the two extractions of a tile
ExtractCommon(node, title, link, sku, sku_formatted) ==
    [name |-> OrNull(title),
     image |-> ImageOf(node),
     availability |-> OrNull(textFromEl(node.availability)),
     badges |-> BadgesOf(node),
     link |-> link,
     product_id |-> OrNull(FirstTruthy(node.dataProductId, node.dataProductid)),
     sku |-> sku,
     sku_formatted |-> sku_formatted]

WithPrices(item, priceSaleRaw, priceWasRaw, number) ==
    [name |-> item.name, image |-> item.image, availability |-> item.availability,
     badges |-> item.badges, link |-> item.link, product_id |-> item.product_id,
     sku |-> item.sku, sku_formatted |-> item.sku_formatted,
     product_number_raw |-> number,
     price_sale |-> cleanMoney(priceSaleRaw), price_sale_raw |-> OrNull(priceSaleRaw),
     price_original |-> cleanMoney(priceWasRaw), price_original_raw |-> OrNull(priceWasRaw)]

\* the card the fallback path gives: no price is read
WithoutPrices(item, number) ==
    [name |-> item.name, image |-> item.image, availability |-> item.availability,
     badges |-> item.badges, link |-> item.link, product_id |-> item.product_id,
     sku |-> item.sku, sku_formatted |-> item.sku_formatted,
     product_number_raw |-> number,
     price_sale |-> Unset, price_sale_raw |-> Unset,
     price_original |-> Unset, price_original_raw |-> Unset]

\* one element of nodes.map(...) in scrapeListing
ListingItemOf(node, title, link, sku, sku_formatted) ==
    WithPrices(ExtractCommon(node, title, link, sku, sku_formatted),
               textFromEl(node.priceTotal), textFromEl(node.priceWas),
               ListingNumberFrom(node, sku_formatted, sku, link, title))

ListingItem(node) ==
    ListingItemOf(node, textFromEl(node.title), LinkOf(node), NodeSku(node), SkuFormattedOf(node))

\* extractFromCard(card)
CardItemOf(node, title, link) ==
    WithoutPrices(ExtractCommon(node, title, link, NodeSku(node), SkuFormattedOf(node)),
                  CardNumberOf(node, link, title))

extractFromCard(node) == CardItemOf(node, textFromEl(node.title), LinkOf(node))

\* a tile whose extraction throws aborts the page
FallbackItems_Abort(nodes) ==
    IF \E i \in 1..Len(nodes) : nodes[i].detached
    THEN [kind |-> "rejected", items |-> <<>>]
    ELSE [kind |-> "fallback", items |-> [i \in 1..Len(nodes) |-> extractFromCard(nodes[i])]]

\* the catch of scrapeListing: each tile on its own, a throwing one gives
\* null and out.filter(Boolean) drops it
FallbackItems(nodes) ==
    [kind |-> "fallback",
     items |-> [i \in 1..Len(SelectSeq(nodes, LAMBDA n : ~n.detached))
                   |-> extractFromCard(SelectSeq(nodes, LAMBDA n : ~n.detached)[i])]]

\* scrapeListing(page): no tile ever attaches and waitForSelector rejects;
\* else evaluateAll over the tiles, and the fallback when it throws
scrapeListing(page) ==
    IF page.nodes = <<>> THEN [kind |-> "rejected", items |-> <<>>]
    ELSE IF page.evaluateAllThrows THEN FallbackItems(page.nodes)
    ELSE [kind |-> "listing", items |-> [i \in 1..Len(page.nodes) |-> ListingItem(page.nodes[i])]]

BareNode ==
    [title |-> Null, priceTotal |-> Null, priceWas |-> Null, imgSrc |-> Null,
     imgDataSrc |-> Null, availability |-> Null, badges |-> <<>>, anchor |-> FALSE,
     href |-> Null, labelledby |-> Null, titleHref |-> Null, anyHref |-> Null,
     dataProductId |-> Null, dataProductid |-> Null, detached |-> FALSE]

FullNode ==
    [title |-> <<" ", "T">>, priceTotal |-> <<"4", " ", "$">>, priceWas |-> <<"9", ",", "5">>,
     imgSrc |-> <<"/", "i">>, imgDataSrc |-> <<"/", "/", "j">>,
     availability |-> <<"2", " ", "e", "n">>, badges |-> << <<"L">>, <<" ">> >>,
     anchor |-> TRUE,
     href |-> <<"/", "p", "/", "x", "-", "0", "5", "4", "1", "2", "3", "4", "p", ".", "h", "t", "m", "l">>,
     labelledby |-> <<"t", "i", "t", "l", "e", "_", "_", "p", "r", "o", "m", "o", "l", "i", "s", "t", "i", "n", "g", "-", "0", "5", "4", "-", "1", "2", "3", "4", "-", "5">>,
     titleHref |-> <<"/", "p", "/", "t">>, anyHref |-> <<"/", "p", "/", "a">>,
     dataProductId |-> <<"P", "1">>, dataProductid |-> <<"P", "2">>, detached |-> FALSE]

\* a tile with an anchor that has no attribute, and title and price without text
HollowNode ==
    [BareNode EXCEPT !.title = <<" ">>, !.priceTotal = <<>>, !.anchor = TRUE,
                     !.priceWas = <<"n", "/", "a">>,
                     !.availability = <<" ", " ">>, !.badges = << <<>> >>,
                     !.anyHref = <<"h", "/", "p", "/", "a">>]

NodeFields ==
    {"title", "priceTotal", "priceWas", "imgSrc", "imgDataSrc", "availability",
     "href", "labelledby", "titleHref", "anyHref", "dataProductId", "dataProductid"}

\* what a later candidate of a field reads
FallbackFields == {"imgDataSrc", "titleHref", "anyHref", "dataProductid"}

\* the full tile, the bare tile, the full tile with one thing missing, the
\* bare tile with only a later candidate of one field
SampleNodes ==
    {BareNode, FullNode, HollowNode, [FullNode EXCEPT !.anchor = FALSE],
     [FullNode EXCEPT !.badges = <<>>]}
      \cup {[FullNode EXCEPT ![f] = Null] : f \in NodeFields}
      \cup {[BareNode EXCEPT ![f] = FullNode[f]] : f \in FallbackFields}

\* a tile that throws shows nothing of itself
Tiles == SampleNodes \cup {[FullNode EXCEPT !.detached = TRUE]}

MaxTiles == 2

ListingPages ==
    [nodes : UNION {[1..k -> Tiles] : k \in 0..MaxTiles}, evaluateAllThrows : BOOLEAN]

ListingInit ==
    /\ fn = "scrapeListing"
    /\ arg \in ListingPages
    /\ res = [kind |-> "none", items |-> <<>>]
    /\ hpc = "ready"
    /\ DedupIdle /\ StoreRunIdle /\ RunIdle

CallScrapeListing ==
    /\ fn = "scrapeListing" /\ hpc = "ready"
    /\ res' = scrapeListing(arg)
    /\ hpc' = "done"
    /\ UNCHANGED <<fn, arg, dvars, pvars, rvars>>

ListingNext == CallScrapeListing

SpecListing == ListingInit /\ [][ListingNext]_vars

Blank(text) == text = Null \/ \A i \in 1..Len(text) : IsSpace(text[i])

\* the selectors of a field find nothing on the tile
Missing(node, field) ==
    CASE field = "name" -> Blank(node.title)
      [] field \in {"price_sale", "price_sale_raw"} -> Blank(node.priceTotal)
      [] field \in {"price_original", "price_original_raw"} -> Blank(node.priceWas)
      [] field = "image" -> node.imgSrc = Null /\ node.imgDataSrc = Null
      [] field = "availability" -> Blank(node.availability)
      [] field = "badges" -> \A i \in 1..Len(node.badges) : Blank(node.badges[i])
      [] field = "link" ->
            (node.anchor => node.href = Null) /\ node.titleHref = Null /\ node.anyHref = Null
      [] field = "product_id" -> node.dataProductId = Null /\ node.dataProductid = Null
      [] field \in {"sku", "sku_formatted"} -> ~node.anchor
      [] field = "product_number_raw" ->
            /\ node.anchor => (node.href = Null /\ node.labelledby = Null)
            /\ node.titleHref = Null /\ node.anyHref = Null /\ Blank(node.title)

ItemFields ==
    {"name", "price_sale", "price_sale_raw", "price_original", "price_original_raw",
     "image", "availability", "badges", "link", "product_id", "sku", "sku_formatted",
     "product_number_raw"}

PriceFields == {"price_sale", "price_sale_raw", "price_original", "price_original_raw"}

\* the tiles whose cards are in the result, in order
TilesKept ==
    IF res.kind = "fallback" THEN SelectSeq(arg.nodes, LAMBDA n : ~n.detached) ELSE arg.nodes

ListingReturned == fn = "scrapeListing" /\ hpc = "done" /\ arg.nodes # <<>>

\* a page with tiles gives one card for each tile, less those that threw on
\* the fallback path, and never raises
DropsOnlyThrowingTiles ==
    /\ res.kind # "rejected"
    /\ Len(res.items) = Len(TilesKept)
    /\ res.kind = "listing" => Len(res.items) = Len(arg.nodes)

\* ---- C28 ----
\* C28 (as stated): every field of a card whose selectors find nothing on
\* the tile is null, no page with tiles raises, and on the fallback path the
\* tiles that throw are dropped and the others extracted.
C28_MissingFieldIsNull ==
    ListingReturned =>
        /\ DropsOnlyThrowingTiles
        /\ \A i \in 1..Len(res.items) : \A f \in ItemFields :
              Missing(TilesKept[i], f) => res.items[i][f] = Null

\* C28 (amended): as above, with the badges of a tile that has none an
\* empty list, and the cards of the fallback path without any price field.
C28_MissingFieldIsNullOrEmptyList ==
    ListingReturned =>
        /\ DropsOnlyThrowingTiles
        /\ \A i \in 1..Len(res.items) :
              /\ \A f \in ItemFields \ ({"badges"} \cup PriceFields) :
                    Missing(TilesKept[i], f) => res.items[i][f] = Null
              /\ Missing(TilesKept[i], "badges") => res.items[i].badges = <<>>
              /\ \A f \in PriceFields :
                    IF res.kind = "fallback" THEN res.items[i][f] = Unset
                    ELSE Missing(TilesKept[i], f) => res.items[i][f] = Null

C28_Witness ==
    /\ ListingReturned /\ res.kind = "fallback"
    /\ \E i \in 1..Len(arg.nodes) : arg.nodes[i].detached
    /\ Len(res.items) = 1 /\ res.items[1].name = Null /\ res.items[1].link # Null

----------------------------------------------------------------------------
(* The stability wait and the page loop around it                           *)
(* (canadian_tire_scraper.mjs:664-713, 2060-2074; scraper_ct.js:244-262,    *)
(* 1164-1168).  fn is the scraper.  arg.fails[p] is the number of attempts  *)
(* of waitProductsStable on page p that time out before the card            *)
(* containers attach; arg.ensureDirFails is whether the debug directory     *)
(* cannot be made.  res.items holds the pages whose records were taken.     *)

StableRetries == 2

StablePages == 2

\* the pages the loop of a scraper visits: canadian_tire_scraper.mjs reads
\* page 1 only (const pageNum = 1)
PagesOf(scraper) == IF scraper = "scraper_ct" THEN StablePages ELSE 1

StableInit ==
    /\ fn \in {"scraper_ct", "canadian_tire_scraper"}
    /\ arg \in [fails : [1..StablePages -> 0..(StableRetries + 1)], ensureDirFails : BOOLEAN]
    /\ res = [pageNum |-> 1, attempt |-> 1, tried |-> 0, items |-> <<>>,
              at |-> "wait", waited |-> "none"]
    /\ hpc = "running"
    /\ DedupIdle /\ StoreRunIdle /\ RunIdle

\* waitProductsStable(page, timeout): the containers attach or the wait
\* times out, which it catches
waitProductsStable(fails, attempt) == attempt > fails

\* after a failed attempt: scraper_ct.js leaves the loop; the retried wait
\* pauses while attempt <= retries and saves the page after the last one
AfterFailedAttempt(scraper, attempt) ==
    IF scraper = "scraper_ct" THEN "returned"
    ELSE IF attempt <= StableRetries THEN "pause"
    ELSE "capture"

StableAttempt ==
    /\ fn \in {"scraper_ct", "canadian_tire_scraper"} /\ res.at = "wait"
    /\ res' = IF waitProductsStable(arg.fails[res.pageNum], res.attempt)
              THEN [res EXCEPT !.tried = @ + 1, !.at = "extract", !.waited = "true"]
              ELSE [res EXCEPT !.tried = @ + 1, !.at = AfterFailedAttempt(fn, res.attempt),
                               !.waited = IF fn = "scraper_ct" THEN "false" ELSE "none"]
    /\ UNCHANGED <<fn, arg, hpc, dvars, pvars, rvars>>

\* waitForTimeout(2000), closeInterferingPopups, next attempt
StablePause ==
    /\ res.at = "pause"
    /\ res' = [res EXCEPT !.attempt = @ + 1, !.at = "wait"]
    /\ UNCHANGED <<fn, arg, hpc, dvars, pvars, rvars>>

\* savePageDebugArtifacts after the last attempt, then return false and the
\* loop returns its items; ensureDir rejecting leaves the wait and the loop
StableCapture ==
    /\ res.at = "capture"
    /\ res' = IF arg.ensureDirFails
              THEN [res EXCEPT !.at = "thrown", !.waited = "thrown"]
              ELSE [res EXCEPT !.at = "returned", !.waited = "false"]
    /\ UNCHANGED <<fn, arg, hpc, dvars, pvars, rvars>>

\* the records of the page are taken; the next page, or the loop is over
StableExtract ==
    /\ fn \in {"scraper_ct", "canadian_tire_scraper"} /\ res.at = "extract"
    /\ res' = IF res.pageNum < PagesOf(fn)
              THEN [res EXCEPT !.items = Append(@, res.pageNum), !.pageNum = @ + 1,
                               !.attempt = 1, !.tried = 0, !.at = "wait", !.waited = "none"]
              ELSE [res EXCEPT !.items = Append(@, res.pageNum), !.at = "returned"]
    /\ UNCHANGED <<fn, arg, hpc, dvars, pvars, rvars>>

StableNext == StableAttempt \/ StablePause \/ StableCapture \/ StableExtract

SpecStable == StableInit /\ [][StableNext]_vars

\* the card containers never attach on the page the loop is at
NeverAttaches == arg.fails[res.pageNum] = StableRetries + 1

InRetriedWait == fn = "canadian_tire_scraper" /\ res.at # "wait"

\* at most retries + 1 attempts; true at the first attempt that succeeds,
\* false only after all have failed
RetriedWaitGivesUp ==
    /\ res.tried <= StableRetries + 1
    /\ res.waited = "true" => res.tried = arg.fails[res.pageNum] + 1
    /\ res.waited = "false" => res.tried = StableRetries + 1
    /\ (NeverAttaches /\ res.at \in {"returned", "thrown"}) => res.waited = "false"

\* ---- C29 ----
\* C29: the retried stability wait makes at most retries + 1 = 3 attempts,
\* returns true at the first attempt that succeeds and false only after all
\* failed; when the card containers never attach on page k the loop stops
\* and returns the records of the pages before k.
C29_UnstablePageStopsLoopWithEarlierRecords ==
    /\ InRetriedWait => RetriedWaitGivesUp
    /\ (fn \in {"scraper_ct", "canadian_tire_scraper"} /\ NeverAttaches
          /\ res.at \notin {"wait", "pause", "capture"})
          => (res.at = "returned" /\ res.items = [p \in 1..(res.pageNum - 1) |-> p])

----------------------------------------------------------------------------
(* The scroll loops (canadian_tire_scraper.mjs:1806-1838,                  *)
(* scraper_ct.js:1057-1103 with the defaults of 169-175).  fn is the loop.  *)
(* Time is counted in ticks of the shortest round of the loop (its wait:    *)
(* 600 ms and 800 ms); a round lasts 1..MaxRoundTicks of them.  The page    *)
(* decides at every round whether it shows more cards and whether its       *)
(* height changed.  res.idle counts the rounds in a row that showed no new  *)
(* card, res.quiet those in which the loop saw nothing change.              *)

\* maxTotalMs = 3 * 60 * 1000 over a wait of at least 600 ms
ScrollCeilingTicks == 300

\* maxTotalMs = 20000 over perRoundWaitMs = 800
AutoScrollCeilingTicks == 25

AutoScrollMaxRounds == 25

ScrollStableRounds == 3

MaxRoundTicks == 2

ScrollLoops == {"scrollUntilCardsStop", "autoScrollLoadAllProducts"}

ScrollInit ==
    /\ fn \in ScrollLoops
    /\ arg \in [count : 0..1]
    /\ res = [round |-> 1, elapsed |-> 0, lastCount |-> arg.count, stable |-> 0,
              idle |-> 0, quiet |-> 0, at |-> "head", why |-> "none"]
    /\ hpc = "running"
    /\ DedupIdle /\ StoreRunIdle /\ RunIdle

\* Date.now() - start > maxTotalMs
ScrollTimedOut(loop, elapsed) ==
    IF loop = "scrollUntilCardsStop" THEN elapsed > ScrollCeilingTicks
    ELSE elapsed > AutoScrollCeilingTicks

\* round <= maxRounds; scrollUntilCardsStop has no such condition
ScrollRoundsLeft(loop, round) ==
    loop = "autoScrollLoadAllProducts" => round <= AutoScrollMaxRounds

\* the head of a round: the round cap, then the time ceiling
ScrollHead ==
    /\ fn \in ScrollLoops /\ res.at = "head"
    /\ res' = IF ~ScrollRoundsLeft(fn, res.round) THEN [res EXCEPT !.at = "done", !.why = "rounds"]
              ELSE IF ScrollTimedOut(fn, res.elapsed) THEN [res EXCEPT !.at = "done", !.why = "time"]
              ELSE [res EXCEPT !.at = "scroll"]
    /\ UNCHANGED <<fn, arg, hpc, dvars, pvars, rvars>>

\* what makes a round a round of change: more cards for scrollUntilCardsStop
\* (count > lastCount), another count or height for autoScrollLoadAllProducts
ScrollChanged(loop, grew, heightChanged) ==
    IF loop = "scrollUntilCardsStop" THEN grew ELSE grew \/ heightChanged

\* the counter that is never set back
NextScrollStable_NoReset(stable, changed) == IF changed THEN stable ELSE stable + 1

\* stable = 0 on change, stable + 1 otherwise
NextScrollStable(stable, changed) == IF changed THEN 0 ELSE stable + 1

\* round counts the rounds of autoScrollLoadAllProducts only: the other loop
\* has no condition on it.  idle stops counting at ScrollStableRounds.
NextRound(loop, round) == IF loop = "autoScrollLoadAllProducts" THEN round + 1 ELSE round

AfterScroll(r, loop, grew, changed, ticks, stable) ==
    [r EXCEPT !.round = NextRound(loop, @), !.elapsed = @ + ticks,
              !.lastCount = IF grew THEN @ + 1 ELSE @,
              !.stable = stable,
              !.idle = IF grew THEN 0 ELSE IF @ < ScrollStableRounds THEN @ + 1 ELSE @,
              !.quiet = IF changed THEN 0 ELSE @ + 1,
              !.at = IF stable >= ScrollStableRounds THEN "done" ELSE "head",
              !.why = IF stable >= ScrollStableRounds THEN "stable" ELSE "none"]

\* the body of a round: scroll, wait, count, compare
ScrollRound ==
    /\ fn \in ScrollLoops /\ res.at = "scroll"
    /\ \E grew \in BOOLEAN, heightChanged \in BOOLEAN, ticks \in 1..MaxRoundTicks :
          /\ fn = "scrollUntilCardsStop" => ~heightChanged
          /\ res' = AfterScroll(res, fn, grew, ScrollChanged(fn, grew, heightChanged), ticks,
                                NextScrollStable(res.stable, ScrollChanged(fn, grew, heightChanged)))
    /\ UNCHANGED <<fn, arg, hpc, dvars, pvars, rvars>>

ScrollNext == ScrollHead \/ ScrollRound

\* every await of a round returns: the loop goes on until it leaves
SpecScroll == ScrollInit /\ [][ScrollNext]_vars /\ WF_vars(ScrollNext)

ScrollDone == fn \in ScrollLoops => res.at = "done"

\* the counter is 0 after every round that showed more cards
ResetOnGrowth == (fn \in ScrollLoops /\ res.idle = 0) => res.stable = 0

\* ---- C30 ----
\* C30 (as stated): both loops stop as soon as 3 rounds in a row show no new
\* card, have their counter at 0 after every round that shows more cards,
\* and end whatever the page does.
C30_StopsAfterThreeRoundsWithoutGrowth ==
    /\ [](fn \in ScrollLoops => (res.idle >= ScrollStableRounds => res.at = "done"))
    /\ []ResetOnGrowth
    /\ <>ScrollDone

\* C30 (amended): both loops stop as soon as 3 rounds in a row show no
\* change, and only then, by the round cap or by the time ceiling, where a
\* change is more cards for scrollUntilCardsStop and another card count or
\* page height for autoScrollLoadAllProducts; the counter is 0 after every
\* round that shows more cards; both loops end whatever the page does.
C30_StopsAfterThreeRoundsWithoutChange ==
    /\ [](fn \in ScrollLoops =>
            /\ res.quiet >= ScrollStableRounds => res.at = "done"
            /\ res.at = "done" =>
                  \/ res.why = "stable" /\ res.quiet = ScrollStableRounds
                  \/ res.why = "time" /\ ScrollTimedOut(fn, res.elapsed)
                  \/ res.why = "rounds" /\ res.round > AutoScrollMaxRounds)
    /\ []ResetOnGrowth
    /\ <>ScrollDone

C30_Witness ==
    /\ fn = "autoScrollLoadAllProducts" /\ res.at = "done" /\ res.why = "stable"
    /\ res.lastCount > arg.count /\ res.round > ScrollStableRounds + 2

----------------------------------------------------------------------------
(* The click loop once more (canadian_tire_scraper.mjs:1840-1903)          *)

InitialCount == IF arg.reach = 0 THEN 0 ELSE 1

\* the clicks in a row, up to now, that added no card
ClicksWithoutIncrease == res.clicks - res.lastGrowthAt

\* ---- C31 ----
\* C31: clickLoadMoreUntilNoGrowth never clicks more than 25 times and never
\* clicks a control that is not visible; it goes on only while fewer than 3
\* clicks in a row added no card, an increase setting that count back to 0;
\* it returns because the control is not visible, because 3 clicks in a row
\* added nothing, because 25 clicks were made or because the time ceiling
\* passed; and the finalCount it returns is the largest count it read,
\* never below the first.
C31_ClicksBoundedAndFinalCountIsLargest ==
    fn = "clickLoadMoreUntilNoGrowth" =>
        /\ res.clicks <= MaxClicks
        /\ hpc = "click" => ButtonVisible
        /\ res.stableRounds = ClicksWithoutIncrease
        /\ hpc \in {"head", "click"} => res.stableRounds < StableRoundsToStop
        /\ hpc = "returned" =>
              /\ res.reason \in {"absent", "stable", "max_clicks", "timeout"}
              /\ res.reason = "absent" => ~ButtonVisible
              /\ res.reason = "stable" => ClicksWithoutIncrease = StableRoundsToStop
              /\ res.reason = "max_clicks" => res.clicks = MaxClicks
              /\ res.previousCount = res.maxSeen
              /\ res.previousCount >= InitialCount
              /\ res.previousCount >= res.count

\* it returned after 3 clicks without a card more, having loaded cards
\* before, with the page showing fewer cards than the count it returns
C31_Witness ==
    /\ fn = "clickLoadMoreUntilNoGrowth" /\ hpc = "returned"
    /\ res.reason = "stable" /\ res.lastGrowthAt > 0
    /\ res.count < res.previousCount

----------------------------------------------------------------------------
(* The order of the batches of run() (scraper_ct.js:1382-1417)             *)

\* the batch a store of the list falls in, counted from 0
BatchOf(s) == (s - 1) \div CONCURRENCY

Launched(s) == st[s].at # "pending"

Finished(s) == st[s].at = "fulfilled"

\* ---- C32 ----
\* C32: the stores run in consecutive batches of 4 in list order: the
\* stores launched together are 4 neighbours of the list, and no store of a
\* later batch is launched before every store of the batches before it has
\* finished, with or without a caught failure.
C32_BatchesRunOneAfterTheOther ==
    \A s \in Stores : Launched(s) =>
        /\ \A t \in Stores : BatchOf(t) < BatchOf(s) => Finished(t)
        /\ \A t \in Stores : BatchOf(t) = BatchOf(s) => Launched(t)
        /\ Cardinality({t \in Stores : BatchOf(t) = BatchOf(s)}) <= CONCURRENCY

\* a store of the second batch is in its try while a store of the first
\* batch has failed and another has not
C32_Witness ==
    /\ runPc = "await"
    /\ \E s \in Stores : BatchOf(s) = 1 /\ st[s].at = "extract"
    /\ \E t \in Stores : BatchOf(t) = 0 /\ st[t].failed
    /\ \E t \in Stores : BatchOf(t) = 0 /\ ~st[t].failed

----------------------------------------------------------------------------
(* run() to its end (scraper_ct.js:1384-1417), with each scrapeStore call   *)
(* taken as a whole: it ends without failure, or with a failure that it or  *)
(* the .catch of run() logs.                                                *)

\* scrapeStore(store).catch(...) of store s, from its launch to its end; the
\* browser is closed unless launch, newContext or close threw
RunStore(s) ==
    /\ runPc = "await" /\ st[s].at = "launch"
    /\ \/ /\ st' = [st EXCEPT ![s].at = CaughtAtStoreBoundary("fulfilled")]
          /\ UNCHANGED session
       \/ \E alive \in BOOLEAN :
             /\ st' = [st EXCEPT ![s].at = CaughtAtStoreBoundary("rejected"),
                                 ![s].failed = TRUE]
             /\ session' = [session EXCEPT ![s] = alive]
    /\ UNCHANGED <<stopRequested, runPc, batchStart, hvars, dvars, pvars>>

RunToEndNext ==
    \/ StartBatch
    \/ AwaitBatch
    \/ \E s \in Stores : RunStore(s)

\* every store run ends, and run() goes on when it can
SpecRunToEnd ==
    /\ RunInit /\ [][RunToEndNext]_vars
    /\ WF_vars(StartBatch) /\ WF_vars(AwaitBatch)
    /\ \A s \in Stores : WF_vars(RunStore(s))

\* ---- C33 ----
\* C33: with no stop requested and every store run ending, run() launches
\* every store of the shard exactly once, whatever stores fail, and then
\* ends: no store is launched twice, and when run() is over none was left
\* out.
C33_EveryStoreLaunchedOnceThenDone ==
    /\ [](\A s \in Stores : st[s].launches <= 1)
    /\ [](runPc = "done" => \A s \in Stores : st[s].launches = 1 /\ Finished(s))
    /\ <>(runPc = "done")

\* run() is over, stores of both batches having failed
C33_Witness ==
    /\ runPc = "done"
    /\ \A s \in Stores : st[s].launches = 1
    /\ \E s \in Stores : BatchOf(s) = 0 /\ st[s].failed
    /\ \E s \in Stores : BatchOf(s) = 1 /\ st[s].failed

----------------------------------------------------------------------------
(* The page loops against a listing without end                            *)
(* (scraper_ct.js:1112-1210; canadian_tire_scraper.mjs:17, 100-106,        *)
(* 139-158).  Every page can show products and an enabled Next control;    *)
(* what the pages hold is left out, only what decides whether the loop     *)
(* goes on is kept.  Page numbers are told apart up to MaxPageCount.        *)

MaxPageCount == 60

EndlessInit ==
    /\ HarnessIdle /\ DedupIdle /\ RunIdle
    /\ impl \in {"scraper_ct", "legacy"}
    /\ argMaxPages \in PageLimitArgs
    /\ pc = (IF impl = "legacy" THEN "legacy_loop" ELSE "loop")
    /\ pageNum = 1 /\ retries = 0 /\ items = <<>>
    /\ previousSignature = {} /\ emptyPageStreak = 0 /\ stopReason = "none"
    /\ storeInitialized = FALSE /\ hasNext = TRUE /\ browserOpen = TRUE
    /\ output = NoOutput /\ pages = <<>> /\ navigated = {}

\* the head of the for loop of scrapeStoreAllPages
EndlessHead ==
    /\ pc = "loop"
    /\ pc' = IF WithinMaxPages(pageNum, maxPages) /\ ~hasReachedTimeLimit(stopRequested)
             THEN "turn" ELSE "left"
    /\ UNCHANGED <<impl, argMaxPages, stopReason, pageNum, retries, items, previousSignature,
                   emptyPageStreak, storeInitialized, hasNext, browserOpen,
                   output, pages, navigated, hvars, dvars, rvars>>

EndlessAfterExtract(streak, reason) ==
    /\ emptyPageStreak' = streak
    /\ stopReason' = reason
    /\ IF reason # "none" THEN pc' = "left" /\ UNCHANGED pageNum
       ELSE pc' = "loop" /\ pageNum' = pageNum + 1

\* one turn of that loop: a navigation or an extraction that throws, a page
\* that does not settle, or the stop decision on what the page showed
EndlessTurn ==
    /\ pc = "turn" /\ pageNum < MaxPageCount
    /\ \/ /\ pc' = "left"
          /\ UNCHANGED <<pageNum, emptyPageStreak, stopReason>>
       \/ \E same \in BOOLEAN, totalProducts \in {0, 3}, accepted \in {0, 2} :
             /\ accepted <= totalProducts
             /\ EndlessAfterExtract(
                   NextStreak(emptyPageStreak, totalProducts, accepted),
                   StopReasonOf(same, totalProducts, accepted,
                                NextStreak(emptyPageStreak, totalProducts, accepted)))
    /\ UNCHANGED <<impl, argMaxPages, retries, items, previousSignature,
                   storeInitialized, hasNext, browserOpen, output, pages,
                   navigated, hvars, dvars, rvars>>

\* the page numbers from MaxPageCount - 1 on, which no page limit reaches and
\* the loop therefore cannot tell apart, are counted on two values
FoldedPage(n) == IF n > MaxPageCount THEN MaxPageCount - 1 ELSE n

\* one turn of while (hasNext) of the older scraper
EndlessLegacyTurn ==
    /\ pc = "legacy_loop"
    /\ \/ /\ pc' = "left"
          /\ UNCHANGED <<pageNum, hasNext>>
       \/ \E next \in BOOLEAN :
             /\ hasNext' = next
             /\ pageNum' = FoldedPage(pageNum + 1)
             /\ pc' = IF ReachedMaxPages(pageNum + 1) \/ ~next
                      THEN "left" ELSE "legacy_loop"
    /\ UNCHANGED <<impl, argMaxPages, stopReason, retries, items, previousSignature,
                   emptyPageStreak, storeInitialized, browserOpen, output, pages,
                   navigated, hvars, dvars, rvars>>

EndlessNext == EndlessHead \/ EndlessTurn \/ EndlessLegacyTurn

\* every await of a turn returns or throws
SpecEndless == EndlessInit /\ [][EndlessNext]_vars /\ WF_vars(EndlessNext)

\* ---- C34 ----
\* C34: the page loop of a store run is left in the end, whatever the
\* listing shows and whatever page limit the command line gives, none and 0
\* included.
C34_PageLoopTerminates == <>(pc = "left")

----------------------------------------------------------------------------
(* A full set of shard workers (scraper_ct.js:70-91,                       *)
(* canadian_tire_scraper.mjs:272-293): the workers 1..arg.totalShards each  *)
(* select their slice of arg.baseStores; res[i] is the slice of worker i.   *)

MaxTotalShards == 4

ShardSetInit ==
    /\ fn = "shardWorkers"
    /\ arg \in [baseStores : {[i \in 1..n |-> i] : n \in 1..MaxStoreCount},
                totalShards : 1..MaxTotalShards]
    /\ res = <<>>
    /\ hpc = "running"
    /\ DedupIdle /\ StoreRunIdle /\ RunIdle

\* the next worker starts and selects its stores
ShardWorker ==
    /\ fn = "shardWorkers" /\ Len(res) < arg.totalShards
    /\ res' = Append(res, storesToProcess(arg.baseStores, JsInt(Len(res) + 1),
                                          JsInt(arg.totalShards)))
    /\ UNCHANGED <<fn, arg, hpc, dvars, pvars, rvars>>

ShardSetNext == ShardWorker

SpecShardSet == ShardSetInit /\ [][ShardSetNext]_vars

\* the workers whose slice holds the store
WorkersOf(store) == {i \in 1..Len(res) : \E j \in 1..Len(res[i]) : res[i][j] = store}

AllWorkersStarted == fn = "shardWorkers" /\ Len(res) = arg.totalShards

\* no store is in the slices of two workers
SlicesDisjoint ==
    fn = "shardWorkers" =>
        \A s \in 1..Len(arg.baseStores) : Cardinality(WorkersOf(s)) <= 1

\* ---- C35 ----
\* C35: for every list length N and every totalShards T >= 1 the slices of
\* the shard indices 1..T are pairwise disjoint and hold every store of the
\* list exactly once.
C35_ShardsPartitionTheList ==
    /\ SlicesDisjoint
    /\ AllWorkersStarted =>
          \A s \in 1..Len(arg.baseStores) : Cardinality(WorkersOf(s)) = 1

----------------------------------------------------------------------------
(* The product number and key of one tile: scrapeListing's candidates and  *)
(* the keys extractProductsOnPage derives (scraper_ct.js)                  *)

\* the texts a tile may carry: a different number in each place, so that the
\* place a number came from can be told
IdOfAttribute == <<"1", "0", "0", "0", "0", "0", "0", "1">>

IdOfLabel == <<"p", "r", "o", "m", "o", "l", "i", "s", "t", "i", "n", "g", "-", "2", "0", "0", "-", "0", "0", "0", "2", "-", "2">>

IdOfHref == <<"/", "p", "/", "3", "0", "0", "0", "0", "0", "0", "3">>

IdOfTitle == <<"T", " ", "#", "4", "0", "0", "-", "0", "0", "0", "4", "-", "4">>

IdOfAvailability == <<"5", "0", "0", "-", "0", "0", "0", "5", "-", "5">>

\* three, four and one digit with spaces between them: neither eight digits
\* in a row nor a hyphen-grouped number
SpacedDigits == <<"6", "0", "0", " ", "0", "0", "0", "6", " ", "6">>

IdentifyTiles ==
    [dataProductId : {Null, IdOfAttribute},
     labelledby    : {Null, IdOfLabel, <<"t", "1">>},
     href          : {Null, IdOfHref, <<"/", "p", "/", "x">>},
     title         : {Null, IdOfTitle, SpacedDigits, <<"T">>},
     availability  : {Null, IdOfAvailability, SpacedDigits, <<"2", " ", "e", "n">>}]

\* the tile in the page: its primary link carries the two attributes, and its
\* prices are 4 $ instead of 9,5
NodeOfTile(t) ==
    [BareNode EXCEPT !.anchor = TRUE, !.dataProductId = t.dataProductId,
                     !.priceTotal = FullNode.priceTotal, !.priceWas = FullNode.priceWas,
                     !.labelledby = t.labelledby, !.href = t.href,
                     !.title = t.title, !.availability = t.availability]

\* the listing card as extractProductsOnPage receives it
CardOfItem(item) ==
    [BlankCard EXCEPT !.name = item.name, !.price_sale_raw = item.price_sale_raw,
                      !.price_original_raw = item.price_original_raw,
                      !.availability = item.availability, !.link = item.link,
                      !.product_id = item.product_id, !.sku = item.sku,
                      !.sku_formatted = item.sku_formatted,
                      !.product_number_raw = item.product_number_raw]

IdentifyInit ==
    /\ fn = "identify"
    /\ arg \in IdentifyTiles
    /\ res = NoRes
    /\ hpc = "ready"
    /\ DedupIdle /\ StoreRunIdle /\ RunIdle

\* scrapeListing's card of the tile, then the numbers and the key that
\* extractProductsOnPage sets on it, and the records it makes of the card
Identified(item, card) ==
    [kind |-> "identified", listed |-> item.product_number_raw, link |-> item.link,
     product_number_raw |-> card.product_number_raw,
     product_number |-> card.product_number, product_key |-> card.product_key,
     records |-> RecordsOfCard(card, HarnessStore)]

IdentifyCard(item) == Identified(item, AnnotateCard(CardOfItem(item)))

CallIdentify ==
    /\ hpc = "ready" /\ fn = "identify"
    /\ res' = IdentifyCard(ListingItem(NodeOfTile(arg)))
    /\ hpc' = "returned"
    /\ UNCHANGED <<fn, arg, dvars, pvars, rvars>>

IdentifyNext == CallIdentify

SpecIdentify == IdentifyInit /\ [][IdentifyNext]_vars

\* the text holds eight digits in a row or a hyphen-grouped 3-4-1 number
HasEightDigitRun(s) == s # Null /\ \E i \in 1..Len(s) : RawDigitsAt(s, i) # <<>>

HasGroupedNumber(s) == s # Null /\ \E i \in 1..Len(s) : FormattedMatchLenAt(s, i) > 0

HasNumberPattern(s) == HasEightDigitRun(s) \/ HasGroupedNumber(s)

\* the candidates in the order structured attribute, anchor metadata, URL
\* path, title
PrioritizedCandidates(t, link) == <<t.dataProductId, t.labelledby, t.href, link, t.title>>

TileTexts(t) == {t.dataProductId, t.labelledby, t.href, t.title, t.availability}

\* C36: the product number recovered for a card is the one of the first
\* candidate, in the order structured attribute, anchor metadata, URL path,
\* title, that holds eight digits in a row or a hyphen-grouped 3-4-1 number;
\* a tile none of whose texts holds either pattern gets no product number and
\* no product key.
C36_NumberFromFirstCandidateWithPattern ==
    hpc = "returned" /\ fn = "identify" =>
        /\ res.listed = extractCtProductNumberRaw(PrioritizedCandidates(arg, res.link))
        /\ (\A s \in TileTexts(arg) : ~HasNumberPattern(s)) =>
              /\ res.product_number_raw = Null
              /\ res.product_number = Null
              /\ res.product_key = Null

\* the two halves of C36 apart
C36_Order ==
    hpc = "returned" /\ fn = "identify" =>
        res.listed = extractCtProductNumberRaw(PrioritizedCandidates(arg, res.link))

C36_OrderWithoutAttribute ==
    hpc = "returned" /\ fn = "identify" =>
        res.listed = extractCtProductNumberRaw(Tail(PrioritizedCandidates(arg, res.link)))

C36_NoPatternNoNumber ==
    hpc = "returned" /\ fn = "identify" =>
        ((\A s \in TileTexts(arg) : ~HasNumberPattern(s)) =>
              /\ res.product_number_raw = Null
              /\ res.product_number = Null
              /\ res.product_key = Null)

C36_NoPatternNoListedNumber ==
    hpc = "returned" /\ fn = "identify" =>
        ((\A s \in TileTexts(arg) : ~HasNumberPattern(s)) => res.listed = Null)

\* the places of the primary identifier of a tile, and the key of the number
\* a text holds
PrimaryTexts(t) == <<t.labelledby, t.href, t.title>>

PrimaryHasNumber(t) == \E i \in 1..3 : HasNumberPattern(PrimaryTexts(t)[i])

\* ct:NNN-NNNN-N
IsCtKey(k) ==
    /\ Len(k) = 13 /\ SubSeq(k, 1, 3) = <<"c", "t", ":">>
    /\ AllDigits(k, 4, 3) /\ k[7] = "-" /\ AllDigits(k, 8, 4) /\ k[12] = "-"
    /\ AllDigits(k, 13, 1)

\* the key of the first primary text that holds a number
RECURSIVE KeyOfFirstNumber(_)
KeyOfFirstNumber(texts) ==
    IF texts = <<>> THEN Null
    ELSE IF HasNumberPattern(Head(texts)) THEN makeCtProductKey(findProductNumberInText(Head(texts)))
    ELSE KeyOfFirstNumber(Tail(texts))

RecordMade == hpc = "returned" /\ fn = "identify" /\ res.records # <<>>

\* C37: the productKey of a record is the key of the number of the card's
\* primary identifier sources whenever one of them holds a product number,
\* the key of the number in the availability text only when none does, and
\* null when the availability text holds none either; a productKey that is
\* not null has the form ct:NNN-NNNN-N.
C37_KeyFromPrimaryElseAvailability ==
    RecordMade =>
        /\ PrimaryHasNumber(arg) =>
              res.records[1].product_key = KeyOfFirstNumber(PrimaryTexts(arg))
        /\ ~PrimaryHasNumber(arg) /\ HasNumberPattern(arg.availability) =>
              res.records[1].product_key = makeCtProductKey(findProductNumberInText(arg.availability))
        /\ ~PrimaryHasNumber(arg) /\ ~HasNumberPattern(arg.availability) =>
              res.records[1].product_key = Null
        /\ res.records[1].product_key # Null => IsCtKey(res.records[1].product_key)

\* the same with the number of the availability text being what
\* buildCtKeysFromText finds in it
C37_KeyWithAvailabilityAsRead ==
    RecordMade =>
        /\ PrimaryHasNumber(arg) =>
              res.records[1].product_key = KeyOfFirstNumber(PrimaryTexts(arg))
        /\ ~PrimaryHasNumber(arg) =>
              res.records[1].product_key = buildCtKeysFromText(arg.availability).productKey
        /\ res.records[1].product_key # Null => IsCtKey(res.records[1].product_key)

C37_Witness ==
    /\ RecordMade
    /\ ~PrimaryHasNumber(arg) /\ HasNumberPattern(arg.availability)
    /\ res.records[1].product_key # Null

----------------------------------------------------------------------------
(* Two stores of one batch, each handling the cards of its pages           *)
(* (scraper_ct.js: run 1399-1412, extractProductsOnPage 1266-1331,         *)
(* scrapeListing 446-518).  A step is what one pipeline executes between   *)
(* two awaits; st[s] holds the place of the pipeline of store s, the page  *)
(* it is on, which extraction path the page took, and the cards of the     *)
(* page extracted and normalized so far.                                    *)

PipeStores == 1..2

MaxPipePages == 2

MaxPageCards == 2

PageCards == 1..MaxPageCards

PipeStart(page) ==
    [pc |-> "goto", page |-> page, path |-> "none", extracted |-> {}, normalized |-> {}]

InterleaveInit ==
    /\ stopRequested = FALSE /\ runPc = "batch" /\ batchStart = 0 /\ session = <<>>
    /\ st = [s \in PipeStores |-> PipeStart(1)]
    /\ HarnessIdle /\ DedupIdle /\ StoreRunIdle

\* the page is loaded and scrapeListing calls cardsLocator.evaluateAll
PipeNavigate(s) ==
    /\ st[s].pc = "goto"
    /\ st' = [st EXCEPT ![s].pc = "evaluateAll"]
    /\ UNCHANGED <<hvars, dvars, pvars, stopRequested, runPc, batchStart, session>>

\* the cards extracted when evaluateAll is answered one card at a time
EvaluateAllCards_OneAtATime(extracted) ==
    extracted \cup {CHOOSE i \in PageCards \ extracted : \A j \in PageCards \ extracted : i <= j}

\* evaluateAll maps over all the tiles inside the page in one call
EvaluateAllCards(extracted) == PageCards

AfterEvaluateAll(s, extracted) ==
    st' = [st EXCEPT ![s].extracted = extracted, ![s].path = "bulk",
                     ![s].pc = IF extracted = PageCards THEN "extracted" ELSE @]

PipeEvaluateAll(s) ==
    /\ st[s].pc = "evaluateAll"
    /\ AfterEvaluateAll(s, EvaluateAllCards(st[s].extracted))
    /\ UNCHANGED <<hvars, dvars, pvars, stopRequested, runPc, batchStart, session>>

\* evaluateAll throws: the catch waits for a tile
PipeEvaluateAllThrows(s) ==
    /\ st[s].pc = "evaluateAll" /\ st[s].extracted = {}
    /\ st' = [st EXCEPT ![s].pc = "recover", ![s].path = "fallback"]
    /\ UNCHANGED <<hvars, dvars, pvars, stopRequested, runPc, batchStart, session>>

\* await cards.count()
PipeCount(s) ==
    /\ st[s].pc = "recover"
    /\ st' = [st EXCEPT ![s].pc = "count"]
    /\ UNCHANGED <<hvars, dvars, pvars, stopRequested, runPc, batchStart, session>>

\* the for loop starts extractFromCard for every tile; each call runs up to
\* its card.evaluate
PipeStartTasks(s) ==
    /\ st[s].pc = "count"
    /\ st' = [st EXCEPT ![s].pc = "cards"]
    /\ UNCHANGED <<hvars, dvars, pvars, stopRequested, runPc, batchStart, session>>

\* card.evaluate of one tile is answered; Promise.all resolves with the last
PipeExtractFromCard(s, i) ==
    /\ st[s].pc = "cards" /\ i \notin st[s].extracted
    /\ st' = [st EXCEPT ![s].extracted = @ \cup {i},
                        ![s].pc = IF st[s].extracted \cup {i} = PageCards
                                  THEN "extracted" ELSE @]
    /\ UNCHANGED <<hvars, dvars, pvars, stopRequested, runPc, batchStart, session>>

\* the card loop of extractProductsOnPage, which awaits nothing
PipeNormalize(s) ==
    /\ st[s].pc = "extracted"
    /\ st' = [st EXCEPT ![s].normalized = PageCards, ![s].pc = "paginate"]
    /\ UNCHANGED <<hvars, dvars, pvars, stopRequested, runPc, batchStart, session>>

\* the next page, or the end of the store
PipeNextPage(s) ==
    /\ st[s].pc = "paginate"
    /\ st' = [st EXCEPT ![s] = IF st[s].page < MaxPipePages
                               THEN PipeStart(st[s].page + 1)
                               ELSE [@ EXCEPT !.pc = "done"]]
    /\ UNCHANGED <<hvars, dvars, pvars, stopRequested, runPc, batchStart, session>>

InterleaveNext ==
    \E s \in PipeStores :
        \/ PipeNavigate(s)
        \/ PipeEvaluateAll(s)
        \/ PipeEvaluateAllThrows(s)
        \/ PipeCount(s)
        \/ PipeStartTasks(s)
        \/ \E i \in PageCards : PipeExtractFromCard(s, i)
        \/ PipeNormalize(s)
        \/ PipeNextPage(s)

SpecInterleave == InterleaveInit /\ [][InterleaveNext]_vars

\* some but not all cards of the page of store s are extracted, or normalized
MidExtraction(s) == st[s].extracted # {} /\ st[s].extracted # PageCards

MidNormalization(s) == st[s].normalized # {} /\ st[s].normalized # PageCards

\* no other store takes this step
OnlyStepOf(s) == \A t \in PipeStores \ {s} : st'[t] = st[t]

\* C38 (as stated): no step of another store's pipeline executes between the
\* handling of the first and of the last card of a page, in the bulk
\* extraction path and in the per-card fallback path.
C38_PageHandledUninterleaved ==
    [][\A s \in PipeStores : MidExtraction(s) \/ MidNormalization(s) => OnlyStepOf(s)]_vars

\* C38 (amended): no step of another store's pipeline executes between the
\* extraction of the first and of the last card of a page in the bulk
\* extraction path, nor between the normalization of the first and of the
\* last card in either path; in the per-card fallback path the cards are
\* extracted one answer at a time and other stores step in between.
C38_BulkAndNormalizationUninterleaved ==
    [][\A s \in PipeStores :
          \/ MidExtraction(s) /\ st[s].path = "bulk"
          \/ MidNormalization(s)
          => OnlyStepOf(s)]_vars

\* a page of store 1 extracted in bulk and normalized while store 2 was in
\* the middle of the fallback extraction of its page
C38_Witness ==
    /\ st[1].path = "bulk" /\ st[1].normalized = PageCards
    /\ st[2].path = "fallback" /\ MidExtraction(2)

----------------------------------------------------------------------------
(* The availability of a record (normalizeAvailabilityInfo as              *)
(* createRecordFromCard calls it: a listing card carries no stock          *)
(* quantity of its own)                                                    *)

\* a text without quantity that matches the out-of-stock and the in-stock
\* vocabulary
MatchesBothVocabularies(t) ==
    LeadingQuantity(t) = NullQty /\ MatchesOutOfStock(t) /\ MatchesInStock(t)

\* C39: the availability of a record is one of in_stock, out_of_stock,
\* unknown; whenever stockQty is not null the availability is in_stock
\* exactly when stockQty > 0 and out_of_stock otherwise, never unknown; a
\* text without quantity that matches both vocabularies ("not available",
\* "indisponible") is classified out_of_stock.
C39_AvailabilityConsistentWithStockQty ==
    hpc = "returned" /\ fn = "normalizeAvailabilityInfo" =>
        /\ res.availability \in {"in_stock", "out_of_stock", "unknown"}
        /\ res.stockQty # NullQty =>
              /\ res.availability = "in_stock" <=> res.stockQty > 0
              /\ res.availability = "out_of_stock" <=> ~(res.stockQty > 0)
        /\ MatchesBothVocabularies(CalledText) =>
              res.availability = "out_of_stock" /\ res.stockQty = NullQty

\* "Indisponible" classified
C39_Witness ==
    /\ hpc = "returned" /\ fn = "normalizeAvailabilityInfo"
    /\ arg.text = <<"I","n","d","i","s","p","o","n","i","b","l","e">>
    /\ MatchesBothVocabularies(CalledText)
    /\ res.availability = "out_of_stock"

\* a quantity of zero classified
C39_ZeroQuantity ==
    /\ hpc = "returned" /\ fn = "normalizeAvailabilityInfo"
    /\ res.stockQty = 0 /\ res.availability = "out_of_stock"

====
